---------------------------- MODULE Spec2Model ----------------------------
(***************************************************************************)
(* Model of the survey analyzer's question auto-classifier                 *)
(* (src/core/data_loader.py): the column signature detector, the header    *)
(* parser, the grouping scan of auto_detect_questions, get_numeric_data,    *)
(* export_config and load_config; of the weighted mean, median and         *)
(* standard deviation, frequency_table, multiple_choice_table,             *)
(* cross_tab_frequencies and test_group_differences of                     *)
(* src/core/statistics.py; and of the way cmd_report and cmd_crosstab      *)
(* (src/main.py) use a config file.                                        *)
(*                                                                         *)
(* Strings are sequences of characters.  A character is a one-letter       *)
(* string; the Polish letters are written as two-letter tokens             *)
(* ("z." for z with dot above, "o'" for o acute, "l/" for l stroke, ...).  *)
(* Column positions are 0-based as in the source; df[c + 1] is column c.   *)
(***************************************************************************)
EXTENDS Integers, Sequences, FiniteSets, TLC

VARIABLES
    df,            \* the DataFrame: a sequence of columns [header, cells]
    pc,            \* position of auto_detect_questions
    col_types,     \* col_types[c + 1]: signature of column c
    processed,     \* set of consumed column positions
    seen_headers,  \* set of normalized headers already seen
    i,             \* outer scan position
    j,             \* extension position
    group_cols,    \* member positions of the group being gathered
    group_labels,  \* member labels of the group being gathered
    questions,     \* the list of QuestionDef built so far
    err,           \* the exception raised, "" when none
    series,        \* detector run: the column given to _detect_column_type
    shuffled,      \* detector run: the same cells in another row order
    sig,           \* detector run: signature of series
    sig2,          \* detector run: signature of shuffled
    dpc,           \* detector run: position
    hdr,           \* header parser run: the header given to _split_qid_header
    hparts,        \* header parser run: the tuple returned
    hpc,           \* header parser run: position
    config,        \* the YAML document written by export_config / read by load_config
    loaded,        \* what load_config returned or raised
    result,        \* what get_numeric_data returned
    report,        \* what cmd_report / cmd_crosstab did with the config file
    stat_values,   \* statistics run: the values Series (data column)
    stat_groups,   \* statistics run: the group_col Series, <<>> when not passed
    stat_weights,  \* statistics run: the weights Series, <<>> when None
    stat_opt,      \* statistics run: sort_by_count or test_type, <<>> when not passed
    stat_out,      \* statistics run: the results of the functions called
    spc            \* statistics run: position

scanVars == <<df, pc, col_types, processed, seen_headers, i, j,
              group_cols, group_labels, questions, err>>
detVars == <<series, shuffled, sig, sig2, dpc>>
hdrVars == <<hdr, hparts, hpc>>
cfgVars == <<config, loaded, result, report>>
statVars == <<stat_values, stat_groups, stat_weights, stat_opt, stat_out, spc>>
vars == <<df, pc, col_types, processed, seen_headers, i, j,
          group_cols, group_labels, questions, err,
          series, shuffled, sig, sig2, dpc,
          hdr, hparts, hpc, config, loaded, result, report,
          stat_values, stat_groups, stat_weights, stat_opt, stat_out, spc>>

----------------------------------------------------------------------------
(* Characters and strings *)

AsciiUpper == {"A","B","C","D","E","F","G","H","I","J","K","L","M",
               "N","O","P","Q","R","S","T","U","V","W","X","Y","Z"}
AsciiLower == {"a","b","c","d","e","f","g","h","i","j","k","l","m",
               "n","o","p","q","r","s","t","u","v","w","x","y","z"}
Digits == <<"0","1","2","3","4","5","6","7","8","9">>
DigitSet == {Digits[k] : k \in 1..Len(Digits)}
WhiteSpace == {" "}

UpperChars == <<"A","B","C","D","E","F","G","H","I","J","K","L","M",
                "N","O","P","Q","R","S","T","U","V","W","X","Y","Z",
                "A,","C'","E,","L/","N'","O'","S'","Z'","Z.">>
LowerChars == <<"a","b","c","d","e","f","g","h","i","j","k","l","m",
                "n","o","p","q","r","s","t","u","v","w","x","y","z",
                "a,","c'","e,","l/","n'","o'","s'","z'","z.">>

\* str.lower() on one character
ToLowerMap ==
    [c \in {UpperChars[k] : k \in 1..Len(UpperChars)} |->
        LowerChars[CHOOSE k \in 1..Len(UpperChars) : UpperChars[k] = c]]

LowerChar(c) == IF c \in DOMAIN ToLowerMap THEN ToLowerMap[c] ELSE c

\* str.lower()
Lower(s) == [k \in 1..Len(s) |-> LowerChar(s[k])]

SetMin(S) == CHOOSE x \in S : \A y \in S : x <= y
SetMax(S) == CHOOSE x \in S : \A y \in S : x >= y

\* str.strip()
Strip(s) ==
    LET keep == {k \in 1..Len(s) : s[k] \notin WhiteSpace}
    IN  IF keep = {} THEN <<>> ELSE SubSeq(s, SetMin(keep), SetMax(keep))

\* kw in s
Contains(s, kw) ==
    \E k \in 0..(Len(s) - Len(kw)) : SubSeq(s, k + 1, k + Len(kw)) = kw

\* Python None where a string is expected; the empty string is <<>>
NoneStr == <<"None">>

\* truthiness of an optional string: None and '' are falsy
Truthy(s) == s # NoneStr /\ s # <<>>

----------------------------------------------------------------------------
(* Module constants *)

QT_NUMERIC_SCALE == "numeric_scale"
QT_LIKERT == "likert"
QT_MULTI_CHOICE == "multiple_choice"
QT_SINGLE_CHOICE == "single_choice"
QT_OPEN == "open_text"
QT_EMPTY == "empty"

CT_HBAR_MEANS == "horizontal_bar_means"
CT_PIE == "pie"
CT_FREQ_BAR == "frequency_bar"
CT_MULTI_BAR == "multiple_choice_bar"

SPECIAL_VALUES == {
    <<"n","i","e"," ","w","i","e","m">>,
    <<"n","i","e"," ","w","i","e","m","/"," ","n","i","e"," ","z","n","a","m">>,
    <<"n","i","e"," ","w","i","e","m","/","n","i","e"," ","z","n","a","m">>,
    <<"n","i","e"," ","w","i","e","m","/","n","i","e"," ","z","n","a","m"," ">>,
    <<"t","r","u","d","n","o"," ","p","o","w","i","e","d","z","i","e","c'">>,
    <<"n","i","e"," ","w","i","e","m","/"," ","t","r","u","d","n","o"," ","p","o","w","i","e","d","z","i","e","c'">>,
    <<"n","i","e"," ","w","i","e","m",","," ","t","r","u","d","n","o"," ","p","o","w","i","e","d","z","i","e","c'">>,
    <<"o","d","m","o","w","a"," ","o","d","p","o","w","i","e","d","z","i">>,
    <<"o","d","m","o","w","a">>,
    <<"-">>,
    <<>>,
    <<"n","a","n">>,
    <<"n","o","n","e">>,
    <<"n","i","e"," ","d","o","t","y","c","z","y">>,
    <<"n","d">>,
    <<"n","/","d">> }

META_KEYWORDS == {
    <<"n","u","m","e","r"," ","w","y","w","i","a","d","u">>,
    <<"a","r","a","n","z.","a","c","j","a">>,
    <<"i","m","i","e,">>,
    <<"n","a","z","w","i","s","k","o">>,
    <<"t","e","l","e","f","o","n">>,
    <<"k","o","d"," ","p","o","c","z","t","o","w","y">>,
    <<"m","i","e","j","s","c","o","w","o","s'","c'">>,
    <<"w","a","g","a">>,
    <<"[","o","g","o'","l/","e","m","]">>,
    <<"w","y","n","i","k","i"," ","d","l","a">>,
    <<"m","a","k","r","o","r","e","g","i","o","n">>,
    <<"s","e","g","m","e","n","t","a","c","j","a">>,
    <<"s","e","g","m","e","n","t">> }

EXCLUDE_KEYWORDS == {
    <<"i","n","n","a",","," ","j","a","k","a">>,
    <<"i","n","n","e"," ","(","j","a","k","i","e">> }

DEMOGRAPHIC_QIDS == {
    <<"M","1">>, <<"M","1","a">>, <<"M","1","b">>, <<"M","2","a">>,
    <<"M","3">>, <<"M","4">>, <<"M","5">>, <<"M","6">>, <<"M","7">>,
    <<"M","8">>, <<"M","9">>, <<"M","1","0">>, <<"M","1","1">> }

EXCLUDE_QIDS == { <<"M","2">> }

\* the cue phrases of the likert sentinel test
SENTINEL_CUES == {
    <<"n","i","e"," ","w","i","e","m">>,
    <<"o","d","m","o","w","a">>,
    <<"t","r","u","d","n","o">> }

MENTION_VALUES == {
    <<"M","E","N","T","I","O","N","E","D">>,
    <<"N","O","T"," ","M","E","N","T","I","O","N","E","D">> }

----------------------------------------------------------------------------
(* Header parser *)

\* QID_RE = ^([A-Z]\d+[a-z]?)\.\s*(.+) : length of group 1, 0 when the
\* header does not match.  The digit run and the optional lower-case
\* letter are greedy and nothing can be given back; (.+) needs one
\* character after the period.
QidLen(header) ==
    IF Len(header) < 2 \/ header[1] \notin AsciiUpper
          \/ header[2] \notin DigitSet
    THEN 0
    ELSE LET nonDigit == {k \in 2..Len(header) : header[k] \notin DigitSet}
             d == IF nonDigit = {} THEN Len(header) ELSE SetMin(nonDigit) - 1
             e == IF d < Len(header) /\ header[d + 1] \in AsciiLower
                  THEN d + 1 ELSE d
         IN  IF Len(header) >= e + 2 /\ header[e + 1] = "." THEN e ELSE 0

SentenceEnd == {".", "?", "!", ":", ";"}

\* the character class [A-ZZ'Z.S'C'L/O'A,E,UP] that starts a sub-item
SubItemStart == AsciiUpper \cup {"Z'", "Z.", "S'", "C'", "L/", "O'", "A,", "E,"}

\* first index after position p that holds no whitespace, 0 when none
NextNonSpace(s, p) ==
    LET rest == {k \in (p + 1)..Len(s) : s[k] \notin WhiteSpace}
    IN  IF rest = {} THEN 0 ELSE SetMin(rest)

\* split_re = ^(.+?[.?!:;])\s+([A-Z...].{5,})$ : the positions p where
\* group 1 may end
SplitPoints(rest) ==
    {p \in 2..Len(rest) :
        /\ rest[p] \in SentenceEnd
        /\ p + 1 <= Len(rest)
        /\ rest[p + 1] \in WhiteSpace
        /\ LET q == NextNonSpace(rest, p)
           IN  /\ q # 0
               /\ rest[q] \in SubItemStart
               /\ Len(rest) - q >= 5}

\* mutant of SubShortEnough: every split is accepted
SubAlwaysShortEnough(sub, rest) == TRUE

\* mutant of SplitQidHeader: the header is returned as the label
SplitQidHeaderAsLabel(header) == <<NoneStr, header, NoneStr>>

\* len(sub) < len(rest) * 0.85
SubShortEnough(sub, rest) == 100 * Len(sub) < 85 * Len(rest)

\* _split_qid_header: <<qid, parent, sub>>
SplitQidHeader(header) ==
    LET e == QidLen(header)
    IN  IF e = 0
        THEN <<NoneStr, NoneStr, header>>
        ELSE LET qid == SubSeq(header, 1, e)
                 rest == Strip(SubSeq(header, e + 2, Len(header)))
                 pts == SplitPoints(rest)
                 whole == <<qid, qid \o <<".", " ">> \o rest, NoneStr>>
             IN  IF pts = {}
                 THEN whole
                 ELSE LET p == SetMin(pts)     \* .+? is lazy
                          q == NextNonSpace(rest, p)
                          parent == qid \o <<".", " ">> \o Strip(SubSeq(rest, 1, p))
                          sub == Strip(SubSeq(rest, q, Len(rest)))
                      IN  IF SubShortEnough(sub, rest)
                          THEN <<qid, parent, sub>>
                          ELSE whole

\* _is_meta
IsMeta(col_name) == \E kw \in META_KEYWORDS : Contains(Lower(col_name), kw)

\* _should_exclude
ShouldExclude(col_name) == \E kw \in EXCLUDE_KEYWORDS : Contains(Lower(col_name), kw)

\* col_str.strip().lower()
NormHeader(col_name) == Lower(Strip(col_name))

----------------------------------------------------------------------------
(* Numbers.  A Python float is [k, num, den]: a finite value num/den with  *)
(* den a power of ten and no common factor ten, or NaN, or an infinity     *)
(* (num = 1 or -1).  Likert codes are Python ints: finite with den = 1.    *)

NaN == [k |-> "nan", num |-> 0, den |-> 0]
PosInf == [k |-> "inf", num |-> 1, den |-> 0]
NegInf == [k |-> "inf", num |-> -1, den |-> 0]
NotANumber == [k |-> "err", num |-> 0, den |-> 0]

RECURSIVE Fin(_, _)
Fin(num, den) ==
    IF den > 1 /\ num % 10 = 0
    THEN Fin(num \div 10, den \div 10)
    ELSE [k |-> "fin", num |-> num, den |-> den]

IntNum(n) == [k |-> "fin", num |-> n, den |-> 1]

\* a < b on floats: every comparison with NaN is false
Lt(a, b) ==
    IF a.k = "nan" \/ b.k = "nan" THEN FALSE
    ELSE IF a.k = "inf" THEN a.num = -1 /\ b # NegInf
    ELSE IF b.k = "inf" THEN b.num = 1
    ELSE a.num * b.den < b.num * a.den

\* min(seq): keeps the first item unless a later one compares smaller
RECURSIVE PyMin(_)
PyMin(seq) ==
    IF Len(seq) = 1 THEN seq[1]
    ELSE LET acc == PyMin(SubSeq(seq, 1, Len(seq) - 1))
             x == seq[Len(seq)]
         IN  IF Lt(x, acc) THEN x ELSE acc

\* max(seq): keeps the first item unless a later one compares greater
RECURSIVE PyMax(_)
PyMax(seq) ==
    IF Len(seq) = 1 THEN seq[1]
    ELSE LET acc == PyMax(SubSeq(seq, 1, Len(seq) - 1))
             x == seq[Len(seq)]
         IN  IF Lt(acc, x) THEN x ELSE acc

\* int(x) on a finite float: truncation toward zero
IntTrunc(x) ==
    IF x.num >= 0 THEN x.num \div x.den ELSE 0 - ((0 - x.num) \div x.den)

\* int(x) raises on NaN (ValueError) and on an infinity (OverflowError)
IntRaises(x) == x.k # "fin"

DigitVal(c) == CHOOSE n \in 0..9 : Digits[n + 1] = c

\* int() of a digit string
RECURSIVE DigitsValue(_)
DigitsValue(s) ==
    IF s = <<>> THEN 0
    ELSE 10 * DigitsValue(SubSeq(s, 1, Len(s) - 1)) + DigitVal(s[Len(s)])

RECURSIVE Pow10(_)
Pow10(n) == IF n = 0 THEN 1 ELSE 10 * Pow10(n - 1)

\* float(v) for the grammar [sign] digits [. digits] | [sign] . digits |
\* [sign] inf | infinity | nan (any case); NotANumber stands for ValueError.
\* Exponents and digit-group underscores are not modelled.
FloatParse(v) ==
    LET s == Strip(v)
        signed == s # <<>> /\ s[1] \in {"+", "-"}
        neg == signed /\ s[1] = "-"
        body == IF signed THEN SubSeq(s, 2, Len(s)) ELSE s
        word == Lower(body)
        dots == {k \in 1..Len(body) : body[k] = "."}
        dot == IF dots = {} THEN Len(body) + 1 ELSE SetMin(dots)
        int_part == SubSeq(body, 1, dot - 1)
        frac_part == SubSeq(body, dot + 1, Len(body))
        allDigits == \A k \in 1..Len(body) : k = dot \/ body[k] \in DigitSet
        mag == DigitsValue(int_part \o frac_part)
    IN  IF word \in {<<"i","n","f">>, <<"i","n","f","i","n","i","t","y">>}
        THEN (IF neg THEN NegInf ELSE PosInf)
        ELSE IF word = <<"n","a","n">> THEN NaN
        ELSE IF allDigits /\ Cardinality(dots) <= 1
                /\ Len(int_part) + Len(frac_part) >= 1
        THEN Fin(IF neg THEN 0 - mag ELSE mag, Pow10(Len(frac_part)))
        ELSE NotANumber

----------------------------------------------------------------------------
(* Column signature detector *)

\* a missing cell (None / NaN), removed by dropna()
MissingCell == <<"<NA>">>

\* LIKERT_PREFIX_RE = ^(\d+)\s*:\s*(.+) : index of the colon, 0 when the
\* value does not match
LikertColon(v) ==
    LET nonDigit == {k \in 1..Len(v) : v[k] \notin DigitSet}
        d == IF nonDigit = {} THEN Len(v) ELSE SetMin(nonDigit) - 1
        c == NextNonSpace(v, d)
    IN  IF d >= 1 /\ c # 0 /\ v[c] = ":" /\ Len(v) > c THEN c ELSE 0

LikertMatch(v) == LikertColon(v) # 0

\* int(m.group(1))
LikertCode(v) ==
    LET nonDigit == {k \in 1..Len(v) : v[k] \notin DigitSet}
    IN  DigitsValue(SubSeq(v, 1, SetMin(nonDigit) - 1))

\* m.group(2).strip()
LikertLabel(v) == Strip(SubSeq(v, LikertColon(v) + 1, Len(v)))

\* any(sv in lbl for sv in ['nie wiem', 'odmowa', 'trudno'])
HasCue(lbl) == \E sv \in SENTINEL_CUES : Contains(lbl, sv)

\* mutant of ValidNums: the sentinel codes are not taken out
ValidNumsKeepsSentinels(all_nums, special) == all_nums

\* valid_nums = [n for n in all_nums if n not in special]
ValidNums(all_nums, special) == all_nums \ special

\* series.dropna().astype(str).str.strip(), then values[values != '']
Values(cells) ==
    LET present == SelectSeq(cells, LAMBDA c : c # MissingCell)
        stripped == [k \in 1..Len(present) |-> Strip(present[k])]
    IN  SelectSeq(stripped, LAMBDA c : c # <<>>)

NoSig(t) ==
    [type |-> t, scale_min |-> <<>>, scale_max |-> <<>>,
     scale_labels |-> <<>>, special_numeric |-> {},
     n_unique |-> 0, categories |-> {}]

\* mutant of LikertThreshold: 40% is enough
LikertThresholdAtLeast(likert_count, n) ==
    likert_count > 0 /\ 10 * likert_count >= 4 * n

\* mutant of NumericThreshold: 50% is enough
NumericThresholdAtLeast(numeric_count, n) == 2 * numeric_count >= n

\* likert_count > len(values) * 0.4
LikertThreshold(likert_count, n) == 10 * likert_count > 4 * n

\* len(numeric_vals) > len(values) * 0.5
NumericThreshold(numeric_count, n) == 2 * numeric_count > n

\* n_unique > 15
OpenTextLimit == 15

\* the likert branch of _detect_column_type
LikertSig(values) ==
    LET hits == {k \in 1..Len(values) : LikertMatch(values[k])}
        all_nums == {LikertCode(values[k]) : k \in hits}
        \* labels[n] is overwritten by every later value with code n
        labels == [n \in all_nums |->
                     LikertLabel(values[SetMax({k \in hits :
                                                 LikertCode(values[k]) = n})])]
        special == {n \in all_nums : HasCue(Lower(labels[n]))}
        valid_nums == ValidNums(all_nums, special)
        bounds == IF valid_nums # {} THEN valid_nums ELSE all_nums
    IN  [type |-> QT_LIKERT,
         scale_min |-> <<IntNum(SetMin(bounds))>>,
         scale_max |-> <<IntNum(SetMax(bounds))>>,
         scale_labels |-> labels, special_numeric |-> special,
         n_unique |-> 0, categories |-> {}]

\* _detect_column_type; categories stands for sorted(unique)
DetectColumnType(cells) ==
    LET values == Values(cells)
        n == Len(values)
        unique == {values[k] : k \in 1..n}
        likert_count == Cardinality({k \in 1..n : LikertMatch(values[k])})
        numeric_vals ==
            LET parsed == [k \in 1..n |-> FloatParse(values[k])]
            IN  SelectSeq(parsed, LAMBDA x : x # NotANumber)
        text_vals ==
            SelectSeq(values, LAMBDA v : /\ FloatParse(v) = NotANumber
                                         /\ Strip(Lower(v)) \notin SPECIAL_VALUES)
        n_unique == Cardinality(unique)
    IN  IF n = 0 THEN NoSig(QT_EMPTY)
        ELSE IF unique \subseteq MENTION_VALUES THEN NoSig(QT_MULTI_CHOICE)
        ELSE IF LikertThreshold(likert_count, n) THEN LikertSig(values)
        ELSE IF NumericThreshold(Len(numeric_vals), n) /\ Len(text_vals) = 0
        THEN [NoSig(QT_NUMERIC_SCALE) EXCEPT
                 !.scale_min = <<PyMin(numeric_vals)>>,
                 !.scale_max = <<PyMax(numeric_vals)>>]
        ELSE IF n_unique > OpenTextLimit
        THEN [NoSig(QT_OPEN) EXCEPT !.n_unique = n_unique]
        ELSE [NoSig(QT_SINGLE_CHOICE) EXCEPT
                 !.n_unique = n_unique, !.categories = unique]

----------------------------------------------------------------------------
(* Input datasets of the grouping scan *)

\* most columns a dataset has
MaxCols == 3
\* rows of a dataset: the fewest with which a column can be open text
NRows == OpenTextLimit + 1

H_A1_Ocena ==
    <<"A","1","."," ","O","c","e","n","a","?"," ","U","p","r","z","e","j","m","o","s'","c'">>
H_Uprzejmosc ==
    <<"U","p","r","z","e","j","m","o","s'","c'">>
H_uprzejmosc ==
    <<"u","p","r","z","e","j","m","o","s'","c'"," ">>
H_Waga ==
    <<"W","a","g","a">>
H_Pusta ==
    <<"P","u","s","t","a">>
H_A1_Czy ==
    <<"A","1","."," ","C","z","y">>
H_TakNie ==
    <<"T","a","k"," ","c","z","y"," ","n","i","e">>
H_Uwagi ==
    <<"U","w","a","g","i">>
H_C3 ==
    <<"C","3","."," ","I","l","e">>
H_Ile ==
    <<"I","l","e"," ","j","e","s","z","c","z","e">>
H_M2 ==
    <<"M","2","."," ","W","i","e","k">>
H_M1a ==
    <<"M","1","a","."," ","P","l/","e","c'">>
H_Wybor ==
    <<"W","y","b","o'","r">>
H_A2_Inne ==
    <<"A","2","."," ","I","n","n","e"," ","(","j","a","k","i","e",")">>

V_Likert12 ==
    <<<<"1",":"," ","T","a","k">>,
      <<"2",":"," ","N","i","e">>>>
V_Likert126 ==
    <<<<"1",":"," ","T","a","k">>,
      <<"2",":"," ","N","i","e">>,
      <<"6",":"," ","N","i","e"," ","w","i","e","m">>>>
V_Likert16 ==
    <<<<"1",":"," ","T","a","k">>,
      <<"6",":"," ","R","a","c","z","e","j">>>>
V_Numeric ==
    <<<<"1">>,
      <<"2",".","5">>>>
V_NumericFrac ==
    <<<<"0",".","5">>,
      <<"2",".","5">>>>
V_NumericNan ==
    <<<<"n","a","n">>,
      <<"3">>>>
V_NumericInf ==
    <<<<"3">>,
      <<"i","n","f">>>>
V_Mention ==
    <<<<"M","E","N","T","I","O","N","E","D">>,
      <<"N","O","T"," ","M","E","N","T","I","O","N","E","D">>>>
V_Choice ==
    <<<<"T","a","k">>,
      <<"N","i","e">>>>
V_Open ==
    <<<<"a">>,
      <<"b">>,
      <<"c">>,
      <<"d">>,
      <<"e">>,
      <<"f">>,
      <<"g">>,
      <<"h">>,
      <<"i">>,
      <<"j">>,
      <<"k">>,
      <<"l">>,
      <<"m">>,
      <<"n">>,
      <<"o">>,
      <<"p">>>>
V_Blank ==
    <<<<" ">>>>

\* a column of NRows cells: the answers given, then missing cells
Column(header, answers) ==
    [header |-> header,
     cells |-> [r \in 1..NRows |->
                 IF r <= Len(answers) THEN answers[r] ELSE MissingCell]]

\* the columns a dataset is made of
Pool == {
    Column(H_A1_Ocena, V_Likert12),
    Column(H_Uprzejmosc, V_Likert126),
    Column(H_uprzejmosc, V_Likert16),
    Column(H_Waga, V_Numeric),
    Column(H_Pusta, V_Blank),
    Column(H_A1_Czy, V_Choice),
    Column(H_TakNie, V_Choice),
    Column(H_Uwagi, V_Open),
    Column(H_C3, V_NumericFrac),
    Column(H_Ile, V_NumericNan),
    Column(H_TakNie, V_NumericInf),
    Column(H_M2, V_Choice),
    Column(H_M1a, V_Mention),
    Column(H_Wybor, V_Mention),
    Column(H_A2_Inne, V_Likert12),
    Column(H_Wybor, V_Likert16) }

Datasets == UNION {[1..n -> Pool] : n \in 0..MaxCols}

----------------------------------------------------------------------------
(* auto_detect_questions *)

n_cols == Len(df)
ColName(c) == df[c + 1].header

\* The header operators applied to the headers of the pool, computed once:
\* the scan looks the results up instead of parsing a header at every step.
PoolHeaders == {p.header : p \in Pool}
SplitTable == [h \in PoolHeaders |-> SplitQidHeader(h)]
MetaTable == [h \in PoolHeaders |-> IsMeta(h)]
ExcludeTable == [h \in PoolHeaders |-> ShouldExclude(h)]
NormTable == [h \in PoolHeaders |-> NormHeader(h)]
\* _detect_column_type of every column of the pool
TypeTable == [p \in Pool |-> DetectColumnType(p.cells)]

\* _split_qid_header(str(col_names[c]))
SplitCol(c) == SplitTable[ColName(c)]
\* _is_meta(str(col_names[c]))
IsMetaCol(c) == MetaTable[ColName(c)]
\* _should_exclude(str(col_names[c]))
ShouldExcludeCol(c) == ExcludeTable[ColName(c)]
\* str(col_names[c]).strip().lower()
NormCol(c) == NormTable[ColName(c)]
ColType(c) == col_types[c + 1].type

\* str(n) for n >= 0
RECURSIVE PyStrInt(_)
PyStrInt(n) ==
    IF n < 10 THEN <<Digits[n + 1]>>
    ELSE PyStrInt(n \div 10) \o <<Digits[(n % 10) + 1]>>

\* _infer_chart_type
InferChartType(qtype, n_categories) ==
    IF qtype \in {QT_NUMERIC_SCALE, QT_LIKERT} THEN CT_HBAR_MEANS
    ELSE IF qtype = QT_MULTI_CHOICE THEN CT_MULTI_BAR
    ELSE IF qtype = QT_SINGLE_CHOICE
    THEN (IF n_categories <= 3 THEN CT_PIE ELSE CT_FREQ_BAR)
    ELSE CT_FREQ_BAR

\* dict.update
DictUpdate(old, new) ==
    [x \in (DOMAIN old) \cup (DOMAIN new) |->
        IF x \in DOMAIN new THEN new[x] ELSE old[x]]

\* the skip test at the head of the outer loop
SkipsColumn(c) ==
    \/ ColType(c) = QT_EMPTY
    \/ IsMetaCol(c)
    \/ ShouldExcludeCol(c)
    \/ NormCol(c) \in seen_headers

\* qid and qid in EXCLUDE_QIDS
HasExcludedQid(c) ==
    LET qid == SplitCol(c)[1]
    IN  Truthy(qid) /\ qid \in EXCLUDE_QIDS

\* is_demo = qid in DEMOGRAPHIC_QIDS if qid else False
IsDemo(c) ==
    LET qid == SplitCol(c)[1]
    IN  IF Truthy(qid) THEN qid \in DEMOGRAPHIC_QIDS ELSE FALSE

\* mutant of OpensRun: a single-choice column gathers sub-items too
OpensRunAlsoChoice(ctype) ==
    ctype \in {QT_LIKERT, QT_NUMERIC_SCALE, QT_MULTI_CHOICE, QT_SINGLE_CHOICE}

\* ctype in (QT_LIKERT, QT_NUMERIC_SCALE, QT_MULTI_CHOICE)
OpensRun(ctype) == ctype \in {QT_LIKERT, QT_NUMERIC_SCALE, QT_MULTI_CHOICE}

\* mutant of JHasQid: the extension loop does not look for an identifier
JHasQidNever(c) == FALSE

\* mutant of JIsSeen: the extension loop does not look for a duplicate header
JIsSeenNever(c) == FALSE

\* mutant of JTypeBreaks: the extension loop does not compare the types
JTypeBreaksNever(c) == FALSE

\* mutant of JIsMetaOrExcluded: the metadata test left out
JIsExcludedOnly(c) == ShouldExcludeCol(c)

\* the tests of the extension loop, in the order the loop makes them
JHasQid(c) == Truthy(SplitCol(c)[1])
JIsMetaOrExcluded(c) == IsMetaCol(c) \/ ShouldExcludeCol(c)
JIsSeen(c) == NormCol(c) \in seen_headers
JTypeBreaks(c) == ColType(c) # ColType(i) /\ ColType(c) # QT_EMPTY
JIsEmpty(c) == ColType(c) = QT_EMPTY

\* the scale_min of the merge loop over group_cols
RECURSIVE MergeMin(_)
MergeMin(cols) ==
    IF cols = <<>> THEN <<>>
    ELSE LET scale_min == MergeMin(SubSeq(cols, 1, Len(cols) - 1))
             smin == col_types[cols[Len(cols)] + 1].scale_min
         IN  IF smin = <<>> THEN scale_min
             ELSE IF scale_min = <<>> THEN smin
             ELSE <<PyMin(<<scale_min[1], smin[1]>>)>>

\* the scale_max of the merge loop over group_cols
RECURSIVE MergeMax(_)
MergeMax(cols) ==
    IF cols = <<>> THEN <<>>
    ELSE LET scale_max == MergeMax(SubSeq(cols, 1, Len(cols) - 1))
             smax == col_types[cols[Len(cols)] + 1].scale_max
         IN  IF smax = <<>> THEN scale_max
             ELSE IF scale_max = <<>> THEN smax
             ELSE <<PyMax(<<scale_max[1], smax[1]>>)>>

\* all_labels after the merge loop
RECURSIVE MergeLabels(_)
MergeLabels(cols) ==
    IF cols = <<>> THEN <<>>
    ELSE DictUpdate(MergeLabels(SubSeq(cols, 1, Len(cols) - 1)),
                    col_types[cols[Len(cols)] + 1].scale_labels)

\* special after the merge loop
MergeSpecial(cols) ==
    UNION {col_types[cols[k] + 1].special_numeric : k \in 1..Len(cols)}

\* int(scale) if scale is not None else None
IntOrNone(scale) == IF scale = <<>> THEN <<>> ELSE <<IntTrunc(scale[1])>>

\* the QuestionDef of a gathered group (fields left at their defaults omitted)
GroupQuestion(c, cols, labels) ==
    LET parts == SplitCol(c)
    IN  [id |-> IF Truthy(parts[1]) THEN parts[1]
                ELSE <<"g","r","o","u","p","_">> \o PyStrInt(c),
         label |-> IF Truthy(parts[2]) THEN parts[2] ELSE ColName(c),
         columns |-> cols,
         column_labels |-> labels,
         question_type |-> ColType(c),
         chart_type |-> InferChartType(ColType(c), 0),
         scale_min |-> IntOrNone(MergeMin(cols)),
         scale_max |-> IntOrNone(MergeMax(cols)),
         scale_labels |-> MergeLabels(cols),
         special_values |-> MergeSpecial(cols),
         is_demographic |-> IsDemo(c)]

\* the QuestionDef of a single-choice column
ChoiceQuestion(c) ==
    LET parts == SplitCol(c)
    IN  [id |-> IF Truthy(parts[1]) THEN parts[1]
                ELSE <<"c","h","o","i","c","e","_">> \o PyStrInt(c),
         label |-> IF Truthy(parts[2]) THEN parts[2] ELSE ColName(c),
         columns |-> <<c>>,
         column_labels |-> <<ColName(c)>>,
         question_type |-> QT_SINGLE_CHOICE,
         chart_type |-> InferChartType(QT_SINGLE_CHOICE, col_types[c + 1].n_unique),
         scale_min |-> <<>>,
         scale_max |-> <<>>,
         scale_labels |-> <<>>,
         special_values |-> {},
         is_demographic |-> IsDemo(c)]

\* no header parser run, no configuration file, no statistics run
HdrIdle == hdr = <<>> /\ hparts = <<>> /\ hpc = "idle"
CfgIdle == config = <<>> /\ loaded = <<>> /\ result = <<>> /\ report = <<>>
StatIdle ==
    /\ stat_values = <<>> /\ stat_groups = <<>> /\ stat_weights = <<>>
    /\ stat_opt = <<>> /\ stat_out = <<>> /\ spc = "idle"

Init ==
    /\ df \in Datasets
    /\ pc = "start"
    /\ col_types = <<>>
    /\ processed = {}
    /\ seen_headers = {}
    /\ i = 0
    /\ j = 0
    /\ group_cols = <<>>
    /\ group_labels = <<>>
    /\ questions = <<>>
    /\ err = ""
    /\ series = <<>>
    /\ shuffled = <<>>
    /\ sig = NoSig(QT_EMPTY)
    /\ sig2 = NoSig(QT_EMPTY)
    /\ dpc = "idle"
    /\ HdrIdle
    /\ CfgIdle
    /\ StatIdle

\* col_types[i] = _detect_column_type(df.iloc[:, i]) for every column
DetectTypes ==
    /\ pc = "start"
    /\ col_types' = [c \in 1..n_cols |-> TypeTable[df[c]]]
    /\ pc' = "scan"
    /\ UNCHANGED <<df, processed, seen_headers, i, j, group_cols,
                   group_labels, questions, err>>
    /\ UNCHANGED <<detVars, hdrVars, cfgVars, statVars>>

\* outer loop: empty / meta / excluded / duplicate column
SkipColumn ==
    /\ pc = "scan"
    /\ i < n_cols
    /\ i \notin processed
    /\ SkipsColumn(i)
    /\ processed' = processed \cup {i}
    /\ i' = i + 1
    /\ UNCHANGED <<df, pc, col_types, seen_headers, j, group_cols,
                   group_labels, questions, err>>
    /\ UNCHANGED <<detVars, hdrVars, cfgVars, statVars>>

\* outer loop: the identifier is on the exclusion list
SkipExcludedQid ==
    /\ pc = "scan"
    /\ i < n_cols
    /\ i \notin processed
    /\ ~SkipsColumn(i)
    /\ HasExcludedQid(i)
    /\ seen_headers' = seen_headers \cup {NormCol(i)}
    /\ processed' = processed \cup {i}
    /\ i' = i + 1
    /\ UNCHANGED <<df, pc, col_types, j, group_cols, group_labels,
                   questions, err>>
    /\ UNCHANGED <<detVars, hdrVars, cfgVars, statVars>>

\* outer loop: a likert / numeric_scale / multiple_choice column opens a group
OpenGroup ==
    /\ pc = "scan"
    /\ i < n_cols
    /\ i \notin processed
    /\ ~SkipsColumn(i)
    /\ ~HasExcludedQid(i)
    /\ OpensRun(ColType(i))
    /\ seen_headers' = seen_headers \cup {NormCol(i)}
    /\ group_cols' = <<i>>
    /\ group_labels' =
         LET first_sub == SplitCol(i)[3]
         IN  <<IF Truthy(first_sub) THEN first_sub ELSE ColName(i)>>
    /\ j' = i + 1
    /\ pc' = "extend"
    /\ UNCHANGED <<df, col_types, processed, i, questions, err>>
    /\ UNCHANGED <<detVars, hdrVars, cfgVars, statVars>>

\* extension loop: the next column carries an identifier
ExtendStopQid ==
    /\ pc = "extend"
    /\ j < n_cols
    /\ JHasQid(j)
    /\ pc' = "merge"
    /\ UNCHANGED <<df, col_types, processed, seen_headers, i, j,
                   group_cols, group_labels, questions, err>>
    /\ UNCHANGED <<detVars, hdrVars, cfgVars, statVars>>

\* extension loop: metadata or excluded column
ExtendSkipMeta ==
    /\ pc = "extend"
    /\ j < n_cols
    /\ ~JHasQid(j)
    /\ JIsMetaOrExcluded(j)
    /\ processed' = processed \cup {j}
    /\ j' = j + 1
    /\ UNCHANGED <<df, pc, col_types, seen_headers, i, group_cols,
                   group_labels, questions, err>>
    /\ UNCHANGED <<detVars, hdrVars, cfgVars, statVars>>

\* extension loop: duplicate header
ExtendSkipSeen ==
    /\ pc = "extend"
    /\ j < n_cols
    /\ ~JHasQid(j)
    /\ ~JIsMetaOrExcluded(j)
    /\ JIsSeen(j)
    /\ processed' = processed \cup {j}
    /\ j' = j + 1
    /\ UNCHANGED <<df, pc, col_types, seen_headers, i, group_cols,
                   group_labels, questions, err>>
    /\ UNCHANGED <<detVars, hdrVars, cfgVars, statVars>>

\* mutant of ExtendStopType: a column of another type is skipped and the
\* extension goes on
ExtendSkipsOtherType ==
    /\ pc = "extend"
    /\ j < n_cols
    /\ ~JHasQid(j)
    /\ ~JIsMetaOrExcluded(j)
    /\ ~JIsSeen(j)
    /\ JTypeBreaks(j)
    /\ processed' = processed \cup {j}
    /\ j' = j + 1
    /\ UNCHANGED <<df, pc, col_types, seen_headers, i, group_cols,
                   group_labels, questions, err>>
    /\ UNCHANGED <<detVars, hdrVars, cfgVars, statVars>>

\* extension loop: a column of another type ends the group
ExtendStopType ==
    /\ pc = "extend"
    /\ j < n_cols
    /\ ~JHasQid(j)
    /\ ~JIsMetaOrExcluded(j)
    /\ ~JIsSeen(j)
    /\ JTypeBreaks(j)
    /\ pc' = "merge"
    /\ UNCHANGED <<df, col_types, processed, seen_headers, i, j,
                   group_cols, group_labels, questions, err>>
    /\ UNCHANGED <<detVars, hdrVars, cfgVars, statVars>>

\* mutant of ExtendSkipEmpty: the column is marked, the position stays
ExtendSkipEmptyStuck ==
    /\ pc = "extend"
    /\ j < n_cols
    /\ ~JHasQid(j)
    /\ ~JIsMetaOrExcluded(j)
    /\ ~JIsSeen(j)
    /\ ~JTypeBreaks(j)
    /\ JIsEmpty(j)
    /\ processed' = processed \cup {j}
    /\ UNCHANGED <<df, pc, col_types, seen_headers, i, j, group_cols,
                   group_labels, questions, err>>
    /\ UNCHANGED <<detVars, hdrVars, cfgVars, statVars>>

\* extension loop: empty column
ExtendSkipEmpty ==
    /\ pc = "extend"
    /\ j < n_cols
    /\ ~JHasQid(j)
    /\ ~JIsMetaOrExcluded(j)
    /\ ~JIsSeen(j)
    /\ ~JTypeBreaks(j)
    /\ JIsEmpty(j)
    /\ processed' = processed \cup {j}
    /\ j' = j + 1
    /\ UNCHANGED <<df, pc, col_types, seen_headers, i, group_cols,
                   group_labels, questions, err>>
    /\ UNCHANGED <<detVars, hdrVars, cfgVars, statVars>>

\* mutant of ExtendAbsorb: the label of the column is not appended
ExtendAbsorbNoLabel ==
    /\ pc = "extend"
    /\ j < n_cols
    /\ ~JHasQid(j)
    /\ ~JIsMetaOrExcluded(j)
    /\ ~JIsSeen(j)
    /\ ~JTypeBreaks(j)
    /\ ~JIsEmpty(j)
    /\ group_cols' = Append(group_cols, j)
    /\ seen_headers' = seen_headers \cup {NormCol(j)}
    /\ j' = j + 1
    /\ UNCHANGED <<df, pc, col_types, processed, i, group_labels,
                   questions, err>>
    /\ UNCHANGED <<detVars, hdrVars, cfgVars, statVars>>

\* extension loop: the column joins the group
ExtendAbsorb ==
    /\ pc = "extend"
    /\ j < n_cols
    /\ ~JHasQid(j)
    /\ ~JIsMetaOrExcluded(j)
    /\ ~JIsSeen(j)
    /\ ~JTypeBreaks(j)
    /\ ~JIsEmpty(j)
    /\ group_cols' = Append(group_cols, j)
    /\ group_labels' = Append(group_labels, ColName(j))
    /\ seen_headers' = seen_headers \cup {NormCol(j)}
    /\ j' = j + 1
    /\ UNCHANGED <<df, pc, col_types, processed, i, questions, err>>
    /\ UNCHANGED <<detVars, hdrVars, cfgVars, statVars>>

\* extension loop: no column left
ExtendEnd ==
    /\ pc = "extend"
    /\ j >= n_cols
    /\ pc' = "merge"
    /\ UNCHANGED <<df, col_types, processed, seen_headers, i, j,
                   group_cols, group_labels, questions, err>>
    /\ UNCHANGED <<detVars, hdrVars, cfgVars, statVars>>

\* the exception int(scale_min) / int(scale_max) raises, "" when none
MergeError(cols) ==
    LET smin == MergeMin(cols)
        smax == MergeMax(cols)
        bad == IF smin # <<>> /\ IntRaises(smin[1]) THEN smin[1]
               ELSE IF smax # <<>> /\ IntRaises(smax[1]) THEN smax[1]
               ELSE IntNum(0)
    IN  IF bad.k = "nan" THEN "ValueError"
        ELSE IF bad.k = "inf" THEN "OverflowError"
        ELSE ""

\* merge the scale info, append the QuestionDef, go on at j
CloseGroup ==
    /\ pc = "merge"
    /\ MergeError(group_cols) = ""
    /\ questions' = Append(questions, GroupQuestion(i, group_cols, group_labels))
    /\ processed' = processed \cup {group_cols[k] : k \in 1..Len(group_cols)}
    /\ i' = j
    /\ pc' = "scan"
    /\ UNCHANGED <<df, col_types, seen_headers, j, group_cols,
                   group_labels, err>>
    /\ UNCHANGED <<detVars, hdrVars, cfgVars, statVars>>

\* QuestionDef(...) is never built: int() of a NaN or infinite bound raises
CloseGroupRaises ==
    /\ pc = "merge"
    /\ MergeError(group_cols) # ""
    /\ err' = MergeError(group_cols)
    /\ pc' = "raised"
    /\ UNCHANGED <<df, col_types, processed, seen_headers, i, j,
                   group_cols, group_labels, questions>>
    /\ UNCHANGED <<detVars, hdrVars, cfgVars, statVars>>

\* outer loop: a single-choice column is a group of its own
SingleChoice ==
    /\ pc = "scan"
    /\ i < n_cols
    /\ i \notin processed
    /\ ~SkipsColumn(i)
    /\ ~HasExcludedQid(i)
    /\ ~OpensRun(ColType(i))
    /\ ColType(i) = QT_SINGLE_CHOICE
    /\ seen_headers' = seen_headers \cup {NormCol(i)}
    /\ questions' = Append(questions, ChoiceQuestion(i))
    /\ processed' = processed \cup {i}
    /\ i' = i + 1
    /\ UNCHANGED <<df, pc, col_types, j, group_cols, group_labels, err>>
    /\ UNCHANGED <<detVars, hdrVars, cfgVars, statVars>>

\* outer loop: any other column (open_text) is consumed without a group
ConsumeOther ==
    /\ pc = "scan"
    /\ i < n_cols
    /\ i \notin processed
    /\ ~SkipsColumn(i)
    /\ ~HasExcludedQid(i)
    /\ ~OpensRun(ColType(i))
    /\ ColType(i) # QT_SINGLE_CHOICE
    /\ seen_headers' = seen_headers \cup {NormCol(i)}
    /\ processed' = processed \cup {i}
    /\ i' = i + 1
    /\ UNCHANGED <<df, pc, col_types, j, group_cols, group_labels,
                   questions, err>>
    /\ UNCHANGED <<detVars, hdrVars, cfgVars, statVars>>

\* the outer loop ends: return questions
Finish ==
    /\ pc = "scan"
    /\ i >= n_cols
    /\ pc' = "done"
    /\ UNCHANGED <<df, col_types, processed, seen_headers, i, j,
                   group_cols, group_labels, questions, err>>
    /\ UNCHANGED <<detVars, hdrVars, cfgVars, statVars>>

----------------------------------------------------------------------------
(* get_numeric_data, export_config, load_config.  A YAML mapping is a      *)
(* function from key strings to values; a value that may be null is <<>>   *)
(* for null and <<x>> for x.  yaml.dump followed by yaml.safe_load gives   *)
(* back the strings, integers, booleans, lists and mappings written.       *)

\* parse_likert_value: <<>> for None, <<x>> for the float x
ParseLikertValue(val) ==
    LET s == Strip(val)
    IN  IF val = MissingCell \/ s = <<>> THEN <<>>
        ELSE IF LikertMatch(s) THEN <<IntNum(LikertCode(s))>>
        ELSE IF Lower(s) \in SPECIAL_VALUES THEN <<>>
        ELSE IF FloatParse(s) # NotANumber THEN <<FloatParse(s)>>
        ELSE <<>>

\* parse_numeric_value; a missing cell is the float NaN, whose str is 'nan'
ParseNumericValue(val) ==
    LET s == Strip(val)
    IN  IF val = MissingCell \/ Lower(s) \in SPECIAL_VALUES THEN <<>>
        ELSE IF FloatParse(s) # NotANumber THEN <<FloatParse(s)>>
        ELSE <<>>

\* None if x is not None and x in question.special_values else x
DropSentinel(x, special_values) ==
    IF x # <<>> /\ x[1].k = "fin" /\ x[1].den = 1 /\ x[1].num \in special_values
    THEN <<>> ELSE x

\* 1 if str(x).strip() == 'MENTIONED' else 0
ParseMention(val) ==
    IF Strip(val) = <<"M","E","N","T","I","O","N","E","D">>
    THEN <<IntNum(1)>> ELSE <<IntNum(0)>>

\* the parsed series of column col_idx for the question
ParsedColumn(question, col_idx) ==
    LET cells == df[col_idx + 1].cells
    IN  IF question.question_type = QT_LIKERT
        THEN [r \in 1..Len(cells) |->
                 DropSentinel(ParseLikertValue(cells[r]), question.special_values)]
        ELSE IF question.question_type = QT_NUMERIC_SCALE
        THEN [r \in 1..Len(cells) |-> ParseNumericValue(cells[r])]
        ELSE IF question.question_type = QT_MULTI_CHOICE
        THEN [r \in 1..Len(cells) |-> ParseMention(cells[r])]
        ELSE cells

\* d[key] = val on a dict kept as the sequence of its items: a key already
\* there keeps its place and gets the new value
DictSetItem(d, key, val) ==
    IF \E n \in 1..Len(d) : d[n][1] = key
    THEN [n \in 1..Len(d) |-> IF d[n][1] = key THEN <<key, val>> ELSE d[n]]
    ELSE Append(d, <<key, val>>)

\* result after the first k members of the question
RECURSIVE ResultDict(_, _)
ResultDict(question, k) ==
    IF k = 0 THEN <<>>
    ELSE DictSetItem(ResultDict(question, k - 1),
                     question.column_labels[k],
                     ParsedColumn(question, question.columns[k]))

WeightLabel == <<"_","w","e","i","g","h","t">>

\* pd.to_numeric(df[weight_col], errors='coerce').fillna(1.0)
WeightColumn(weight_col) ==
    LET c == CHOOSE c \in 1..Len(df) : df[c].header = weight_col
    IN  [r \in 1..Len(df[c].cells) |->
            LET x == IF df[c].cells[r] = MissingCell THEN NaN
                     ELSE FloatParse(df[c].cells[r])
            IN  IF x \in {NaN, NotANumber} THEN IntNum(1) ELSE x]

\* the column names of df are pairwise distinct, as read_excel leaves them
DistinctColumnNames ==
    \A c, d \in 1..Len(df) : df[c].header = df[d].header => c = d

\* get_numeric_data(df, questions[g], weight_col): the items of result_df
GetNumericData ==
    /\ pc = "done"
    /\ DistinctColumnNames
    /\ \E g \in 1..Len(questions) : \E weight_col \in {<<>>, H_Waga} :
          LET data == ResultDict(questions[g], Len(questions[g].columns))
              weighted == /\ weight_col # <<>>
                          /\ \E c \in 1..Len(df) : df[c].header = weight_col
          IN  result' = [question |-> g,
                         weighted |-> weighted,
                         items |-> IF weighted
                                   THEN DictSetItem(data, WeightLabel,
                                                    WeightColumn(weight_col))
                                   ELSE data]
    /\ pc' = "extracted"
    /\ UNCHANGED <<df, col_types, processed, seen_headers, i, j,
                   group_cols, group_labels, questions, err>>
    /\ UNCHANGED <<config, loaded, report>>
    /\ UNCHANGED <<detVars, hdrVars, statVars>>

\* sorted(S) for a set of integers
RECURSIVE SortedList(_)
SortedList(S) ==
    IF S = {} THEN <<>> ELSE <<SetMin(S)>> \o SortedList(S \ {SetMin(S)})

EmptyDict == <<>>

\* the mapping qd that export_config writes for the question q
ExportQd(q) ==
    [id |-> q.id, label |-> q.label, columns |-> q.columns,
     column_labels |-> q.column_labels,
     question_type |-> q.question_type, chart_type |-> q.chart_type,
     is_demographic |-> q.is_demographic]
    @@ (IF q.scale_min # <<>>
        THEN [scale_min |-> q.scale_min, scale_max |-> q.scale_max]
        ELSE EmptyDict)
    @@ (IF DOMAIN q.scale_labels # {}
        THEN [scale_labels |-> q.scale_labels]
        ELSE EmptyDict)
    @@ (IF q.special_values # {}
        THEN [special_values |-> SortedList(q.special_values)]
        ELSE EmptyDict)

\* the document export_config dumps
ExportDoc(qs) == [questions |-> <<[k \in 1..Len(qs) |-> ExportQd(qs[k])]>>]

\* mutant of QdGet: the default whatever the mapping holds
QdGetDefault(qd, key, default) == default

\* qd.get(key, default)
QdGet(qd, key, default) == IF key \in DOMAIN qd THEN qd[key] ELSE default

RequiredKeys == {"id", "label", "columns", "question_type", "chart_type"}

\* the QuestionDef load_config builds from the mapping qd
LoadQd(qd) ==
    [id |-> qd["id"], label |-> qd["label"], columns |-> qd["columns"],
     column_labels |-> QdGet(qd, "column_labels", <<>>),
     question_type |-> qd["question_type"], chart_type |-> qd["chart_type"],
     scale_min |-> QdGet(qd, "scale_min", <<>>),
     scale_max |-> QdGet(qd, "scale_max", <<>>),
     scale_labels |-> QdGet(qd, "scale_labels", EmptyDict),
     special_values |->
         LET lst == QdGet(qd, "special_values", <<>>)
         IN  {lst[k] : k \in 1..Len(lst)},
     is_demographic |-> QdGet(qd, "is_demographic", FALSE)]

Raised(kind) == [kind |-> kind, questions |-> <<>>, categorical_ids |-> <<>>]

\* load_config on the document doc: what it returns (kind "ok") or raises
LoadConfig(doc) ==
    IF DOMAIN doc = {} \/ "questions" \notin DOMAIN doc
    THEN Raised("ValueError")
    ELSE IF doc["questions"] = <<>>
    THEN Raised("TypeError")             \* for qd in None
    ELSE LET qds == doc["questions"][1]
             categorical == QdGet(doc, "categorical_questions", <<>>)
         IN  IF \E k \in 1..Len(qds) : ~(RequiredKeys \subseteq DOMAIN qds[k])
             THEN Raised("KeyError")
             ELSE [kind |-> "ok",
                   questions |-> [k \in 1..Len(qds) |-> LoadQd(qds[k])],
                   categorical_ids |->
                       IF categorical = <<>> THEN <<>>
                       ELSE <<[k \in 1..Len(categorical[1]) |->
                                  Strip(categorical[1][k])]>>]

\* export_config(questions, path)
ExportConfig ==
    /\ pc = "done"
    /\ config' = ExportDoc(questions)
    /\ pc' = "exported"
    /\ UNCHANGED <<df, col_types, processed, seen_headers, i, j,
                   group_cols, group_labels, questions, err>>
    /\ UNCHANGED <<loaded, result, report>>
    /\ UNCHANGED <<detVars, hdrVars, statVars>>

\* load_config(path)
LoadConfigFile ==
    /\ pc = "exported"
    /\ loaded' = LoadConfig(config)
    /\ pc' = "loaded"
    /\ UNCHANGED <<df, col_types, processed, seen_headers, i, j,
                   group_cols, group_labels, questions, err>>
    /\ UNCHANGED <<config, result, report>>
    /\ UNCHANGED <<detVars, hdrVars, statVars>>

\* Python values of different types that one name of main.py may be bound to
PyList(items) == [type |-> "list", value |-> items]

PyNone == [type |-> "NoneType", value |-> <<>>]

PyQuestionDef(q) == [type |-> "QuestionDef", value |-> q]

\* what iterating over the Python value v yields, in order
PyIter(v) ==
    IF v.type = "tuple"
    THEN v.value
    ELSE [k \in 1..Len(v.value) |-> PyQuestionDef(v.value[k])]

\* the value of the call load_config(path) when it returns r: the pair
\* (questions, categorical_ids)
LoadConfigValue(r) ==
    [type |-> "tuple",
     value |-> <<PyList(r.questions),
                 IF r.categorical_ids = <<>> THEN PyNone
                 ELSE PyList(r.categorical_ids[1])>>]

\* for q in questions: ... q.question_type / q.id ...: the elements the loop
\* gets through, and the AttributeError of the first that is no QuestionDef
IterateQuestions(bound) ==
    LET items == PyIter(bound)
        bad   == {k \in 1..Len(items) : items[k].type # "QuestionDef"}
    IN  [iterated |-> items,
         visited  |-> IF bad = {} THEN Len(items) ELSE SetMin(bad) - 1,
         err      |-> IF bad = {} THEN "" ELSE "AttributeError"]

\* the part of a command that depends on the existing config file: the call
\* of load_config, the binding of its value to questions, and the loop
RunWithConfig(cmd, doc) ==
    LET r == LoadConfig(doc)
    IN  IF r.kind # "ok"
        THEN [cmd |-> cmd, len |-> 0, iterated |-> <<>>, visited |-> 0,
              err |-> r.kind]
        ELSE LET bound == LoadConfigValue(r)
             IN  [cmd |-> cmd, len |-> Len(bound.value)]
                 @@ IterateQuestions(bound)

\* cmd_report(args) with args.config an existing file
CmdReport ==
    /\ pc = "exported"
    /\ report' = RunWithConfig("report", config)
    /\ pc' = "reported"
    /\ UNCHANGED <<df, col_types, processed, seen_headers, i, j,
                   group_cols, group_labels, questions, err>>
    /\ UNCHANGED <<config, loaded, result>>
    /\ UNCHANGED <<detVars, hdrVars, statVars>>

\* cmd_crosstab(args) with args.config an existing file
CmdCrosstab ==
    /\ pc = "exported"
    /\ report' = RunWithConfig("crosstab", config)
    /\ pc' = "reported"
    /\ UNCHANGED <<df, col_types, processed, seen_headers, i, j,
                   group_cols, group_labels, questions, err>>
    /\ UNCHANGED <<config, loaded, result>>
    /\ UNCHANGED <<detVars, hdrVars, statVars>>

Next ==
    \/ DetectTypes
    \/ SkipColumn
    \/ SkipExcludedQid
    \/ OpenGroup
    \/ ExtendStopQid
    \/ ExtendSkipMeta
    \/ ExtendSkipSeen
    \/ ExtendStopType
    \/ ExtendSkipEmpty
    \/ ExtendAbsorb
    \/ ExtendEnd
    \/ CloseGroup
    \/ CloseGroupRaises
    \/ SingleChoice
    \/ ConsumeOther
    \/ Finish
    \/ GetNumericData
    \/ ExportConfig
    \/ LoadConfigFile

Spec == Init /\ [][Next]_vars

----------------------------------------------------------------------------
(* _detect_column_type on its own: one column, and the same cells with two *)
(* rows exchanged                                                          *)

\* most rows of the column
MaxRows == 3

\* the cells a column is made of
DetCells == {
    MissingCell,
    <<"1",":"," ","T","a","k">>,
    <<"1",":"," ","N","i","e"," ","w","i","e","m">>,
    <<"2",":"," ","N","i","e">>,
    <<"6",":"," ","N","i","e"," ","w","i","e","m">>,
    <<"n","a","n">>,
    <<"3">>,
    <<"0",".","5">>,
    <<"T","a","k">>,
    <<"-">> }

\* seq with the cells at rows p and q exchanged
SwapRows(seq, p, q) ==
    [k \in 1..Len(seq) |->
        IF k = p THEN seq[q] ELSE IF k = q THEN seq[p] ELSE seq[k]]

InitDetect ==
    /\ series \in UNION {[1..n -> DetCells] : n \in 1..MaxRows}
    /\ shuffled \in {SwapRows(series, p, q) :
                        p \in 1..Len(series), q \in 1..Len(series)}
    /\ sig = NoSig(QT_EMPTY)
    /\ sig2 = NoSig(QT_EMPTY)
    /\ dpc = "start"
    /\ df = <<>>
    /\ pc = "idle"
    /\ col_types = <<>>
    /\ processed = {}
    /\ seen_headers = {}
    /\ i = 0
    /\ j = 0
    /\ group_cols = <<>>
    /\ group_labels = <<>>
    /\ questions = <<>>
    /\ err = ""
    /\ HdrIdle
    /\ CfgIdle
    /\ StatIdle

\* _detect_column_type(series) and _detect_column_type(shuffled)
DetectSeries ==
    /\ dpc = "start"
    /\ sig' = DetectColumnType(series)
    /\ sig2' = DetectColumnType(shuffled)
    /\ dpc' = "done"
    /\ UNCHANGED <<series, shuffled>>
    /\ UNCHANGED <<scanVars, hdrVars, cfgVars, statVars>>

NextDetect == DetectSeries

SpecDetect == InitDetect /\ [][NextDetect]_vars

----------------------------------------------------------------------------
(* _detect_column_type on its own: the order of its rules and their        *)
(* thresholds, on columns long enough to hold exactly 40% and 50%          *)

\* most rows of the column
MaxLen == 5

\* the cells a column is made of
RuleCells == {
    <<" ">>,
    <<"1",":"," ","T","a","k">>,
    <<"3">>,
    <<"T","a","k">>,
    <<"-">>,
    <<"M","E","N","T","I","O","N","E","D">>,
    <<"N","O","T"," ","M","E","N","T","I","O","N","E","D">> }

InitRules ==
    /\ series \in UNION {[1..n -> RuleCells] : n \in 0..MaxLen}
    /\ shuffled = series
    /\ sig = NoSig(QT_EMPTY)
    /\ sig2 = NoSig(QT_EMPTY)
    /\ dpc = "start"
    /\ df = <<>>
    /\ pc = "idle"
    /\ col_types = <<>>
    /\ processed = {}
    /\ seen_headers = {}
    /\ i = 0
    /\ j = 0
    /\ group_cols = <<>>
    /\ group_labels = <<>>
    /\ questions = <<>>
    /\ err = ""
    /\ HdrIdle
    /\ CfgIdle
    /\ StatIdle

SpecRules == InitRules /\ [][NextDetect]_vars


----------------------------------------------------------------------------
(* _split_qid_header on its own: a header put together from an identifier  *)
(* prefix, a parent text, a run of spaces and a sub-item text              *)

\* most spaces between the parent text and the sub-item text
MaxPad == 2

HdrPrefixes == {
    <<>>,
    <<"A","1",".">>,
    <<"A","1","."," ">>,
    <<"B","2","a","."," ">>,
    <<"a","1","."," ">>,
    <<"A","B","1","."," ">> }

HdrParents == {
    <<>>,
    <<"O","c","e","n","a","?">>,
    <<"O","c","e","n","a">>,
    <<"X",".">>,
    <<"X","."," ","B","c","d","e","f","g","h","i","j","k",".">> }

HdrSubs == {
    <<>>,
    <<"A","b","c","d","e">>,
    <<"A","b","c","d","e","f">>,
    <<"a","b","c","d","e","f">>,
    <<"N'","b","c","d","e","f">>,
    <<"S'","b","c","d","e","f">>,
    <<"A","b","c","d","e","f","g","h","i","j","k","l","m","n","o","p">>,
    <<"A","b","c","d","e","f","g","h","i","j","k","l","m","n","o","p","q">> }

Spaces(n) == [k \in 1..n |-> " "]

Headers ==
    {prefix \o parent \o Spaces(pad) \o sub :
        prefix \in HdrPrefixes, parent \in HdrParents,
        pad \in 0..MaxPad, sub \in HdrSubs}

InitHeader ==
    /\ hdr \in Headers
    /\ hparts = <<>>
    /\ hpc = "start"
    /\ df = <<>>
    /\ pc = "idle"
    /\ col_types = <<>>
    /\ processed = {}
    /\ seen_headers = {}
    /\ i = 0
    /\ j = 0
    /\ group_cols = <<>>
    /\ group_labels = <<>>
    /\ questions = <<>>
    /\ err = ""
    /\ series = <<>>
    /\ shuffled = <<>>
    /\ sig = NoSig(QT_EMPTY)
    /\ sig2 = NoSig(QT_EMPTY)
    /\ dpc = "idle"
    /\ CfgIdle
    /\ StatIdle

\* qid, parent_text, first_sub = _split_qid_header(hdr)
SplitHeader ==
    /\ hpc = "start"
    /\ hparts' = SplitQidHeader(hdr)
    /\ hpc' = "done"
    /\ UNCHANGED hdr
    /\ UNCHANGED <<scanVars, detVars, cfgVars, statVars>>

NextHeader == SplitHeader

SpecHeader == InitHeader /\ [][NextHeader]_vars


----------------------------------------------------------------------------
(* load_config on its own: a document put together from an optional        *)
(* 'questions' section and an optional 'categorical_questions' section     *)

\* most mappings in the 'questions' section
MaxGroups == 2

QdLikert ==
    [id |-> <<"A","1">>, label |-> <<"A","1","."," ","O","c","e","n","a","?">>,
     columns |-> <<0, 1>>,
     column_labels |-> <<<<"U","p","r","z","e","j","m","o","s'","c'">>, <<"C","z","a","s">>>>,
     question_type |-> QT_LIKERT, chart_type |-> CT_HBAR_MEANS,
     is_demographic |-> FALSE,
     scale_min |-> <<1>>, scale_max |-> <<5>>,
     scale_labels |-> (1 :> <<"T","a","k">> @@ 6 :> <<"N","i","e"," ","w","i","e","m">>),
     special_values |-> <<6>>]

QdChoice ==
    [id |-> <<"M","1">>, label |-> <<"M","1","."," ","P","l/","e","c'">>,
     columns |-> <<2>>,
     column_labels |-> <<<<"M","1","."," ","P","l/","e","c'">>>>,
     question_type |-> QT_SINGLE_CHOICE, chart_type |-> CT_PIE,
     is_demographic |-> TRUE]

\* only the keys load_config reads without a default
QdMinimal ==
    [id |-> <<"B","2">>, label |-> <<"B","2","."," ","I","l","e">>,
     columns |-> <<3>>,
     question_type |-> QT_NUMERIC_SCALE, chart_type |-> CT_HBAR_MEANS]

\* no 'id'
QdNoId ==
    [label |-> <<"C","3">>, columns |-> <<4>>,
     question_type |-> QT_MULTI_CHOICE, chart_type |-> CT_MULTI_BAR]

\* scale_max: null
QdNullMax ==
    [id |-> <<"D","4">>, label |-> <<"D","4">>, columns |-> <<5>>,
     question_type |-> QT_NUMERIC_SCALE, chart_type |-> CT_HBAR_MEANS,
     scale_min |-> <<0>>, scale_max |-> <<>>]

QdPool == {QdLikert, QdChoice, QdMinimal, QdNoId, QdNullMax}

\* the 'questions' section: absent, null, or a list of mappings
QuestionsSections ==
    {EmptyDict, [questions |-> <<>>]}
    \cup {[questions |-> <<qds>>] :
             qds \in UNION {[1..n -> QdPool] : n \in 0..MaxGroups}}

\* the 'categorical_questions' section: absent, null, or a list of strings
CategoricalSections ==
    {EmptyDict,
     [categorical_questions |-> <<>>],
     [categorical_questions |-> <<<<>>>>],
     [categorical_questions |-> <<<<<<"M","1"," ">>, <<"M","3">>>>>>]}

\* the documents yaml.safe_load may return; the empty mapping also stands
\* for the empty file, for which safe_load returns None
Documents ==
    {qs @@ cs : qs \in QuestionsSections, cs \in CategoricalSections}

InitLoad ==
    /\ config \in Documents
    /\ loaded = <<>>
    /\ result = <<>>
    /\ report = <<>>
    /\ pc = "exported"
    /\ df = <<>>
    /\ col_types = <<>>
    /\ processed = {}
    /\ seen_headers = {}
    /\ i = 0
    /\ j = 0
    /\ group_cols = <<>>
    /\ group_labels = <<>>
    /\ questions = <<>>
    /\ err = ""
    /\ series = <<>>
    /\ shuffled = <<>>
    /\ sig = NoSig(QT_EMPTY)
    /\ sig2 = NoSig(QT_EMPTY)
    /\ dpc = "idle"
    /\ HdrIdle
    /\ StatIdle

NextLoad ==
    \/ LoadConfigFile
    \/ CmdReport
    \/ CmdCrosstab

SpecLoad == InitLoad /\ [][NextLoad]_vars


----------------------------------------------------------------------------
(* weighted_mean, weighted_median, weighted_std (src/core/statistics.py).  *)
(* A Series is a sequence of cells: <<>> for NaN, <<n>> for the number n.  *)
(* The weights argument is <<>> for None and <<w>> for the Series w, which *)
(* has the index of the values.  A result is the exact number num/den, the *)
(* square root of num/den, NaN, or the exception raised.                   *)

\* most rows of the values Series
MaxVals == 3

StatCells == {<<>>, <<1>>, <<2>>, <<4>>}
WeightCells == {<<>>, <<0>>, <<1>>, <<2>>}

RECURSIVE Gcd(_, _)
Gcd(a, b) == IF b = 0 THEN a ELSE Gcd(b, a % b)

Abs(n) == IF n < 0 THEN 0 - n ELSE n

\* the float num/den, den > 0
Ratio(num, den) ==
    LET g == Gcd(Abs(num), den)
    IN  [k |-> "fin", num |-> num \div g, den |-> den \div g]

\* numpy.sqrt of num/den >= 0
SqrtOf(num, den) == [Ratio(num, den) EXCEPT !.k = "sqrt"]

ZeroDivision == [k |-> "ZeroDivisionError", num |-> 0, den |-> 0]

RECURSIVE SeqSum(_)
SeqSum(s) == IF s = <<>> THEN 0 ELSE s[1] + SeqSum(Tail(s))

\* valid = values.dropna(): the rows kept
ValidRows(values) == {r \in 1..Len(values) : values[r] # <<>>}

RECURSIVE RowsInOrder(_)
RowsInOrder(rows) ==
    IF rows = {} THEN <<>>
    ELSE <<SetMin(rows)>> \o RowsInOrder(rows \ {SetMin(rows)})

\* valid.values
ValidValues(values) ==
    LET rows == RowsInOrder(ValidRows(values))
    IN  [n \in 1..Len(rows) |-> values[rows[n]][1]]

\* weights.loc[valid.index].fillna(1.0).values
ValidWeights(values, weights) ==
    LET rows == RowsInOrder(ValidRows(values))
    IN  [n \in 1..Len(rows) |->
            IF weights[rows[n]] = <<>> THEN 1 ELSE weights[rows[n]][1]]

\* numpy.average(v, weights=w): ZeroDivisionError when the weights sum to 0
NpAverage(v, w) ==
    IF SeqSum(w) = 0 THEN ZeroDivision
    ELSE Ratio(SeqSum([n \in 1..Len(v) |-> v[n] * w[n]]), SeqSum(w))

\* weighted_mean(values, weights)
WeightedMean(values, weights) ==
    LET v == ValidValues(values)
    IN  IF Len(v) = 0 THEN NaN
        ELSE IF weights # <<>>
        THEN NpAverage(v, ValidWeights(values, weights[1]))
        ELSE Ratio(SeqSum(v), Len(v))

\* valid.argsort(): the positions of v in ascending order of value
RECURSIVE ArgSort(_, _)
ArgSort(v, left) ==
    IF left = {} THEN <<>>
    ELSE LET least == CHOOSE n \in left :
                          \A m \in left : v[n] < v[m] \/ (v[n] = v[m] /\ n <= m)
         IN  <<least>> \o ArgSort(v, left \ {least})

\* Series.median(): the middle value, the mean of the two middle values
\* when the count is even
PlainMedian(v) ==
    LET idx == ArgSort(v, 1..Len(v))
        n == Len(v)
    IN  IF n % 2 = 1 THEN Ratio(v[idx[(n + 1) \div 2]], 1)
        ELSE Ratio(v[idx[n \div 2]] + v[idx[n \div 2 + 1]], 2)

\* weighted_median(values, weights)
WeightedMedian(values, weights) ==
    LET v == ValidValues(values)
    IN  IF Len(v) = 0 THEN NaN
        ELSE IF weights = <<>> THEN PlainMedian(v)
        ELSE LET w == ValidWeights(values, weights[1])
                 sorted_idx == ArgSort(v, 1..Len(v))
                 cumsum == [n \in 1..Len(v) |->
                               SeqSum([m \in 1..n |-> w[sorted_idx[m]]])]
                 \* cumsum >= cumsum[-1] / 2.0
                 past == {n \in 1..Len(v) : 2 * cumsum[n] >= cumsum[Len(v)]}
             IN  Ratio(v[sorted_idx[SetMin(past)]], 1)

\* weighted_std(values, weights)
WeightedStd(values, weights) ==
    LET v == ValidValues(values)
        n == Len(v)
    IN  IF n <= 1 THEN NaN
        ELSE IF weights = <<>>
        THEN \* Series.std(): ddof = 1
             SqrtOf(SeqSum([m \in 1..n |-> (v[m] * n - SeqSum(v)) * (v[m] * n - SeqSum(v))]),
                    n * n * (n - 1))
        ELSE LET w == ValidWeights(values, weights[1])
                 avg == NpAverage(v, w)
             IN  IF avg = ZeroDivision THEN ZeroDivision
                 ELSE SqrtOf(SeqSum([m \in 1..n |->
                                 w[m] * (v[m] * avg.den - avg.num)
                                      * (v[m] * avg.den - avg.num)]),
                             avg.den * avg.den * SeqSum(w))

InitStats ==
    /\ stat_values \in UNION {[1..n -> StatCells] : n \in 0..MaxVals}
    /\ stat_weights \in {<<>>} \cup {<<w>> : w \in [1..Len(stat_values) -> WeightCells]}
    /\ stat_groups = <<>>
    /\ stat_opt = <<>>
    /\ stat_out = [mean |-> NaN, median |-> NaN, std |-> NaN]
    /\ spc = "start"
    /\ df = <<>>
    /\ pc = "idle"
    /\ col_types = <<>>
    /\ processed = {}
    /\ seen_headers = {}
    /\ i = 0
    /\ j = 0
    /\ group_cols = <<>>
    /\ group_labels = <<>>
    /\ questions = <<>>
    /\ err = ""
    /\ series = <<>>
    /\ shuffled = <<>>
    /\ sig = NoSig(QT_EMPTY)
    /\ sig2 = NoSig(QT_EMPTY)
    /\ dpc = "idle"
    /\ HdrIdle
    /\ CfgIdle

\* weighted_mean(stat_values, stat_weights)
CallWeightedMean ==
    /\ spc = "start"
    /\ stat_out' = [stat_out EXCEPT !.mean = WeightedMean(stat_values, stat_weights)]
    /\ spc' = "mean"
    /\ UNCHANGED <<stat_values, stat_groups, stat_weights, stat_opt>>
    /\ UNCHANGED <<scanVars, detVars, hdrVars, cfgVars>>

\* weighted_median(stat_values, stat_weights)
CallWeightedMedian ==
    /\ spc = "mean"
    /\ stat_out' = [stat_out EXCEPT !.median = WeightedMedian(stat_values, stat_weights)]
    /\ spc' = "median"
    /\ UNCHANGED <<stat_values, stat_groups, stat_weights, stat_opt>>
    /\ UNCHANGED <<scanVars, detVars, hdrVars, cfgVars>>

\* weighted_std(stat_values, stat_weights)
CallWeightedStd ==
    /\ spc = "median"
    /\ stat_out' = [stat_out EXCEPT !.std = WeightedStd(stat_values, stat_weights)]
    /\ spc' = "done"
    /\ UNCHANGED <<stat_values, stat_groups, stat_weights, stat_opt>>
    /\ UNCHANGED <<scanVars, detVars, hdrVars, cfgVars>>

NextStats == CallWeightedMean \/ CallWeightedMedian \/ CallWeightedStd

SpecStats == InitStats /\ [][NextStats]_vars


----------------------------------------------------------------------------
(* frequency_table (src/core/statistics.py).  A categorical Series is a    *)
(* sequence of cells: <<>> for a missing answer, <<s>> for the string s.   *)
(* A table is the sequence of its rows; a percentage is the exact number   *)
(* of tenths divided by 10.                                                *)

\* most rows of a Series given to a table or test function
MaxObs == 4

\* the characters of the categories in code point order
CodePoints ==
    <<" ", ".", "0", "1", "2", "3", "4", "5", "6", "7", "8", "9",
      "A", "B", "C", "D", "E", "F", "G", "H", "I", "J", "K", "L", "M",
      "N", "O", "P", "Q", "R", "S", "T", "U", "V", "W", "X", "Y", "Z", "_",
      "a", "b", "c", "d", "e", "f", "g", "h", "i", "j", "k", "l", "m",
      "n", "o", "p", "q", "r", "s", "t", "u", "v", "w", "x", "y", "z">>

Ord(c) == CHOOSE n \in 1..Len(CodePoints) : CodePoints[n] = c

\* a < b for Python strings
RECURSIVE StrLess(_, _)
StrLess(a, b) ==
    IF b = <<>> THEN FALSE
    ELSE IF a = <<>> THEN TRUE
    ELSE IF a[1] # b[1] THEN Ord(a[1]) < Ord(b[1])
    ELSE StrLess(Tail(a), Tail(b))

\* numpy.round(num / den, 0) for num >= 0, den > 0: halves go to the even integer
RoundHalfEven(num, den) ==
    LET q == num \div den
        r == num % den
    IN  IF 2 * r < den THEN q
        ELSE IF 2 * r > den THEN q + 1
        ELSE IF q % 2 = 0 THEN q ELSE q + 1

\* (part / total * 100).round(1)
Percent(part, total) == Ratio(RoundHalfEven(1000 * part, total), 10)

\* valid = series.dropna(); valid = valid[valid.astype(str).str.strip() != '']
FreqValidRows(cells) ==
    {r \in 1..Len(cells) : cells[r] # <<>> /\ Strip(cells[r][1]) # <<>>}

\* weights.loc[row] after fillna(1.0)
FilledWeight(weights, r) == IF weights[r] = <<>> THEN 1 ELSE weights[r][1]

\* the distinct values of the rows in the order of their first occurrence
RECURSIVE FirstSeen(_, _)
FirstSeen(cells, rows) ==
    IF rows = {} THEN <<>>
    ELSE LET r == SetMin(rows)
         IN  <<cells[r][1]>> \o
             FirstSeen(cells, {m \in rows : cells[m][1] # cells[r][1]})

\* the group keys of valid.groupby(valid): ascending
RECURSIVE SortedKeys(_)
SortedKeys(keys) ==
    IF keys = {} THEN <<>>
    ELSE LET least == CHOOSE a \in keys : \A b \in keys \ {a} : StrLess(a, b)
         IN  <<least>> \o SortedKeys(keys \ {least})

\* freq: the Series of (weighted) counts, as a sequence of [key, n]
FreqCounts(cells, weights) ==
    LET rows == FreqValidRows(cells)
        keys == IF weights # <<>>
                THEN SortedKeys({cells[r][1] : r \in rows})
                ELSE FirstSeen(cells, rows)
        of(key) == RowsInOrder({r \in rows : cells[r][1] = key})
    IN  [k \in 1..Len(keys) |->
            [key |-> keys[k],
             n |-> IF weights # <<>>
                   THEN SeqSum([m \in 1..Len(of(keys[k])) |->
                                   FilledWeight(weights[1], of(keys[k])[m])])
                   ELSE Len(of(keys[k]))]]

\* total
FreqTotal(cells, weights) ==
    LET rows == RowsInOrder(FreqValidRows(cells))
    IN  IF weights # <<>>
        THEN SeqSum([m \in 1..Len(rows) |-> FilledWeight(weights[1], rows[m])])
        ELSE Len(rows)

\* freq.sort_values(ascending=False): the orders it can give, ties in any order
SortValuesDescending(freq) ==
    LET n == Len(freq)
        perms == {p \in [1..n -> 1..n] :
                     /\ \A a, b \in 1..n : a # b => p[a] # p[b]
                     /\ \A a \in 1..n : a < n => freq[p[a]].n >= freq[p[a + 1]].n}
    IN  {[k \in 1..n |-> freq[p[k]]] : p \in perms}

\* the DataFrame built from freq and total
FreqFrame(freq, total) ==
    [k \in 1..Len(freq) |->
        [Kategoria |-> freq[k].key,
         N |-> freq[k].n,
         pct |-> IF total > 0 THEN Percent(freq[k].n, total) ELSE Ratio(0, 1)]]

\* frequency_table(series, weights, sort_by_count): the tables it can return
FrequencyTable(cells, weights, sort_by_count) ==
    LET freq == FreqCounts(cells, weights)
        total == FreqTotal(cells, weights)
    IN  IF sort_by_count
        THEN {FreqFrame(f, total) : f \in SortValuesDescending(freq)}
        ELSE {FreqFrame(freq, total)}

Cat(c) == <<<<c>>>>
Blank == <<<<" ">>>>

\* rows of the input: an answer and the respondent's weight entry
FreqRows == {
    [v |-> Cat("b"), w |-> <<3>>],
    [v |-> Cat("a"), w |-> <<3>>],
    [v |-> Cat("c"), w |-> <<3>>],
    [v |-> Cat("d"), w |-> <<7>>],
    [v |-> Cat("a"), w |-> <<>>],
    [v |-> Cat("b"), w |-> <<0>>],
    [v |-> <<>>,     w |-> <<1>>],
    [v |-> Blank,    w |-> <<1>>] }

InitFreq ==
    /\ \E n \in 0..MaxObs : \E rows \in [1..n -> FreqRows] :
          /\ stat_values = [k \in 1..n |-> rows[k].v]
          /\ stat_weights \in {<<>>, <<[k \in 1..n |-> rows[k].w]>>}
    /\ stat_groups = <<>>
    /\ stat_opt \in {<<>>, <<FALSE>>, <<TRUE>>}
    /\ stat_out = <<>>
    /\ spc = "start"
    /\ df = <<>>
    /\ pc = "idle"
    /\ col_types = <<>>
    /\ processed = {}
    /\ seen_headers = {}
    /\ i = 0
    /\ j = 0
    /\ group_cols = <<>>
    /\ group_labels = <<>>
    /\ questions = <<>>
    /\ err = ""
    /\ series = <<>>
    /\ shuffled = <<>>
    /\ sig = NoSig(QT_EMPTY)
    /\ sig2 = NoSig(QT_EMPTY)
    /\ dpc = "idle"
    /\ HdrIdle
    /\ CfgIdle

\* frequency_table(stat_values, stat_weights, sort_by_count)
CallFrequencyTable ==
    /\ spc = "start"
    /\ \E table \in FrequencyTable(stat_values, stat_weights, stat_opt = <<TRUE>>) :
          stat_out' = table
    /\ spc' = "done"
    /\ UNCHANGED <<stat_values, stat_groups, stat_weights, stat_opt>>
    /\ UNCHANGED <<scanVars, detVars, hdrVars, cfgVars>>

NextFreq == CallFrequencyTable

SpecFreq == InitFreq /\ [][NextFreq]_vars


----------------------------------------------------------------------------
(* test_group_differences (src/core/statistics.py).  data_col is a Series  *)
(* of numbers (<<>> for a cell that pd.to_numeric coerces to NaN),         *)
(* group_col a Series of strings (<<>> for a missing group).  A result     *)
(* records the name returned under 'test', the scipy function that was    *)
(* called ("" when none) and the statistic: NaN, or the rounded value     *)
(* that scipy gave.                                                         *)

\* most rows of the two Series given to test_group_differences
MaxPairs == 5

\* round(stat, 2), round(p, 4) of a scipy result
ScipyValue == [k |-> "scipy", num |-> 0, den |-> 0]

\* {'test': name, 'statistic': np.nan, 'p_value': np.nan}
UndefinedResult(name, called) ==
    [test |-> name, called |-> called, statistic |-> NaN, p_value |-> NaN]

\* {'test': name, 'statistic': round(stat, 2), 'p_value': round(p, 4)}
TestResult(name, called) ==
    [test |-> name, called |-> called,
     statistic |-> ScipyValue, p_value |-> ScipyValue]

\* valid_mask = numeric.notna() & group_col.notna()
PairValidRows(data_col, group_col) ==
    {r \in 1..Len(data_col) : data_col[r] # <<>> /\ group_col[r] # <<>>}

\* stats.kruskal refuses data whose numbers are all identical in the
\* releases that raise ValueError for it; the others give a result
KruskalOutcomes(numeric, rows) ==
    {TestResult("Kruskal-Wallis", "kruskal")} \cup
    IF \A a, b \in rows : numeric[a] = numeric[b]
    THEN {UndefinedResult("error", "kruskal")}
    ELSE {}

\* test_group_differences(data_col, group_col, test_type): the results it
\* can return
TestGroupDifferences(data_col, group_col, test_type) ==
    LET rows == PairValidRows(data_col, group_col)
        unique_groups == FirstSeen(group_col, rows)
    IN  IF Cardinality(rows) < 5
        THEN {UndefinedResult("insufficient_data", "")}
        ELSE IF Len(unique_groups) < 2
        THEN {UndefinedResult("single_group", "")}
        ELSE IF Len(unique_groups) = 2 /\ test_type = "auto"
        THEN {TestResult("Mann-Whitney U", "mannwhitneyu")}
        ELSE IF Len(unique_groups) = 2 /\ test_type = "ttest"
        THEN {TestResult("t-test", "ttest_ind")}
        ELSE KruskalOutcomes(data_col, rows)

\* rows of the input: a value and the respondent's group
PairRows == {
    [v |-> <<1>>, g |-> Cat("a")],
    [v |-> <<2>>, g |-> Cat("a")],
    [v |-> <<1>>, g |-> Cat("b")],
    [v |-> <<2>>, g |-> Cat("c")],
    [v |-> <<>>,  g |-> Cat("a")],
    [v |-> <<2>>, g |-> <<>>] }

\* test_type: the default, the t-test request, and another string
TestTypes == {<<>>, <<"auto">>, <<"ttest">>, <<"kruskal">>}

InitTest ==
    /\ \E n \in 0..MaxPairs : \E rows \in [1..n -> PairRows] :
          /\ stat_values = [k \in 1..n |-> rows[k].v]
          /\ stat_groups = [k \in 1..n |-> rows[k].g]
    /\ stat_weights = <<>>
    /\ stat_opt \in TestTypes
    /\ stat_out = <<>>
    /\ spc = "start"
    /\ df = <<>>
    /\ pc = "idle"
    /\ col_types = <<>>
    /\ processed = {}
    /\ seen_headers = {}
    /\ i = 0
    /\ j = 0
    /\ group_cols = <<>>
    /\ group_labels = <<>>
    /\ questions = <<>>
    /\ err = ""
    /\ series = <<>>
    /\ shuffled = <<>>
    /\ sig = NoSig(QT_EMPTY)
    /\ sig2 = NoSig(QT_EMPTY)
    /\ dpc = "idle"
    /\ HdrIdle
    /\ CfgIdle

\* test_group_differences(stat_values, stat_groups, test_type), test_type
\* 'auto' when not passed
CallTestGroupDifferences ==
    /\ spc = "start"
    /\ \E out \in TestGroupDifferences(stat_values, stat_groups,
                     IF stat_opt = <<>> THEN "auto" ELSE stat_opt[1]) :
          stat_out' = out
    /\ spc' = "done"
    /\ UNCHANGED <<stat_values, stat_groups, stat_weights, stat_opt>>
    /\ UNCHANGED <<scanVars, detVars, hdrVars, cfgVars>>

NextTest == CallTestGroupDifferences

SpecTest == InitTest /\ [][NextTest]_vars


----------------------------------------------------------------------------
(* multiple_choice_table and cross_tab_frequencies                         *)
(* (src/core/statistics.py).  A DataFrame is a sequence of columns         *)
(* [name, cells]; a mention cell is <<1>>, <<0>> or <<>> for NaN.  The     *)
(* pivot table of cross_tab_frequencies is its row keys, its column keys   *)
(* and the percentages pct[row][column].                                   *)

\* weights[rows].sum(): a NaN weight is skipped by the sum
NanSkippingSum(weights, rows) ==
    LET given == RowsInOrder({r \in rows : weights[r] # <<>>})
    IN  SeqSum([m \in 1..Len(given) |-> weights[given[m]][1]])

\* round(pct, 1) for pct = part / total * 100, 0 when total is not positive
PctOrZero(part, total) ==
    IF total > 0 THEN Percent(part, total) ELSE Ratio(0, 1)

\* one row of multiple_choice_table: the option column col of a frame of
\* n_total rows
ChoiceRow(col, n_total, weights) ==
    LET mentioned == {r \in 1..Len(col.cells) : col.cells[r] = <<1>>}
        n_mentioned == Cardinality(mentioned)
    IN  [Opcja |-> col.name,
         N |-> n_mentioned,
         pct |-> IF weights # <<>>
                 THEN PctOrZero(NanSkippingSum(weights[1], mentioned),
                                NanSkippingSum(weights[1], 1..Len(weights[1])))
                 ELSE PctOrZero(n_mentioned, n_total)]

\* sort_values('% wskazan', ascending=False): the orders it can give
SortByPctDescending(rows) ==
    LET n == Len(rows)
        geq(a, b) == a.num * b.den >= b.num * a.den
        perms == {p \in [1..n -> 1..n] :
                     /\ \A a, b \in 1..n : a # b => p[a] # p[b]
                     /\ \A a \in 1..n :
                            a < n => geq(rows[p[a]].pct, rows[p[a + 1]].pct)}
    IN  {[k \in 1..n |-> rows[p[k]]] : p \in perms}

\* multiple_choice_table(data, weights): the tables it can return
MultipleChoiceTable(data, weights) ==
    LET n_total == IF data = <<>> THEN 0 ELSE Len(data[1].cells)
        cols == RowsInOrder({c \in 1..Len(data) : data[c].name[1] # "_"})
        rows == [k \in 1..Len(cols) |-> ChoiceRow(data[cols[k]], n_total, weights)]
    IN  SortByPctDescending(rows)

\* data_col.astype(str): a column with a NaN holds floats, otherwise integers
AsTypeStr(col, r) ==
    IF \E m \in 1..Len(col) : col[m] = <<>>
    THEN PyStrInt(col[r][1]) \o <<".", "0">>
    ELSE PyStrInt(col[r][1])

\* cross_tab_frequencies(data_col, group_col, weights)
CrossTabFrequencies(data_col, group_col, weights) ==
    LET valid == PairValidRows(data_col, group_col)
        data_valid == [r \in valid |-> AsTypeStr(data_col, r)]
        group_valid == [r \in valid |-> group_col[r][1]]
        row_keys == SortedKeys({data_valid[r] : r \in valid})
        col_keys == SortedKeys({group_valid[r] : r \in valid})
        \* ct: a combination without respondents is 0 (NaN under
        \* aggfunc='sum', which the column sum skips and fillna(0) ends as 0)
        ct(d, g) ==
            LET of == {r \in valid : data_valid[r] = d /\ group_valid[r] = g}
            IN  IF weights # <<>> THEN NanSkippingSum(weights[1], of)
                ELSE Cardinality(of)
        col_sums(g) ==
            SeqSum([k \in 1..Len(row_keys) |-> ct(row_keys[k], g)])
    IN  [rows |-> row_keys,
         cols |-> col_keys,
         pct |-> [a \in 1..Len(row_keys) |->
                    [b \in 1..Len(col_keys) |->
                        PctOrZero(ct(row_keys[a], col_keys[b]),
                                  col_sums(col_keys[b]))]]]

\* rows of the input: two option columns, the respondent's group and the
\* respondent's weight entry
WeightedRows == {
    [a |-> <<1>>, b |-> <<0>>, g |-> Cat("x"), w |-> <<2>>],
    [a |-> <<0>>, b |-> <<1>>, g |-> Cat("y"), w |-> <<2>>],
    [a |-> <<1>>, b |-> <<1>>, g |-> Cat("x"), w |-> <<>>],
    [a |-> <<0>>, b |-> <<0>>, g |-> Cat("y"), w |-> <<>>],
    [a |-> <<>>,  b |-> <<1>>, g |-> Cat("x"), w |-> <<1>>],
    [a |-> <<1>>, b |-> <<0>>, g |-> <<>>,     w |-> <<1>>],
    [a |-> <<1>>, b |-> <<1>>, g |-> Cat("y"), w |-> <<0>>] }

InitWeights ==
    /\ \E n \in 0..MaxObs : \E rows \in [1..n -> WeightedRows] :
          /\ stat_values = <<[name |-> <<"A">>, cells |-> [k \in 1..n |-> rows[k].a]],
                             [name |-> <<"B">>, cells |-> [k \in 1..n |-> rows[k].b]]>>
          /\ stat_groups = [k \in 1..n |-> rows[k].g]
          /\ stat_weights \in {<<>>, <<[k \in 1..n |-> rows[k].w]>>}
    /\ stat_opt = <<>>
    /\ stat_out = [choice |-> <<>>, cross |-> <<>>]
    /\ spc = "start"
    /\ df = <<>>
    /\ pc = "idle"
    /\ col_types = <<>>
    /\ processed = {}
    /\ seen_headers = {}
    /\ i = 0
    /\ j = 0
    /\ group_cols = <<>>
    /\ group_labels = <<>>
    /\ questions = <<>>
    /\ err = ""
    /\ series = <<>>
    /\ shuffled = <<>>
    /\ sig = NoSig(QT_EMPTY)
    /\ sig2 = NoSig(QT_EMPTY)
    /\ dpc = "idle"
    /\ HdrIdle
    /\ CfgIdle

\* multiple_choice_table(stat_values, stat_weights)
CallMultipleChoiceTable ==
    /\ spc = "start"
    /\ \E table \in MultipleChoiceTable(stat_values, stat_weights) :
          stat_out' = [stat_out EXCEPT !.choice = table]
    /\ spc' = "choice"
    /\ UNCHANGED <<stat_values, stat_groups, stat_weights, stat_opt>>
    /\ UNCHANGED <<scanVars, detVars, hdrVars, cfgVars>>

\* cross_tab_frequencies(data_col, stat_groups, stat_weights) for the first
\* option column as data_col
CallCrossTabFrequencies ==
    /\ spc = "choice"
    /\ stat_out' = [stat_out EXCEPT !.cross =
                       CrossTabFrequencies(stat_values[1].cells, stat_groups,
                                           stat_weights)]
    /\ spc' = "done"
    /\ UNCHANGED <<stat_values, stat_groups, stat_weights, stat_opt>>
    /\ UNCHANGED <<scanVars, detVars, hdrVars, cfgVars>>

NextWeights == CallMultipleChoiceTable \/ CallCrossTabFrequencies

SpecWeights == InitWeights /\ [][NextWeights]_vars


----------------------------------------------------------------------------
(* auto_detect_questions run to its end: the interpreter executes the      *)
(* next statement of the two loops whenever there is one.                  *)

\* one step of the scan
ScanStep ==
    \/ DetectTypes
    \/ SkipColumn
    \/ SkipExcludedQid
    \/ OpenGroup
    \/ ExtendStopQid
    \/ ExtendSkipMeta
    \/ ExtendSkipSeen
    \/ ExtendStopType
    \/ ExtendSkipEmpty
    \/ ExtendAbsorb
    \/ ExtendEnd
    \/ CloseGroup
    \/ CloseGroupRaises
    \/ SingleChoice
    \/ ConsumeOther
    \/ Finish

SpecFair == Init /\ [][Next]_vars /\ WF_vars(ScanStep)


----------------------------------------------------------------------------
(* Properties of the grouping scan (specification Spec) *)

Positions == 0..(n_cols - 1)
Returned == pc = "done"
Members(q) == {q.columns[k] : k \in 1..Len(q.columns)}
Groups == {questions[g] : g \in 1..Len(questions)}
Signature(c) == col_types[c + 1]
CarriesQid(c) == QidLen(ColName(c)) # 0
ScaleGroups == {q \in Groups : q.question_type \in {QT_LIKERT, QT_NUMERIC_SCALE}}

\* the normalized header of column c was added to seen_headers by a column
\* before c: one that was not empty, metadata or excluded
SeenBefore(c) ==
    \E k \in 0..(c - 1) :
        /\ NormHeader(ColName(k)) = NormHeader(ColName(c))
        /\ Signature(k).type # QT_EMPTY
        /\ ~IsMeta(ColName(k))
        /\ ~ShouldExclude(ColName(k))

\* column c is skipped: empty, metadata, excluded, duplicate, or its
\* identifier is on the exclusion list
Skipped(c) ==
    \/ Signature(c).type = QT_EMPTY
    \/ IsMeta(ColName(c))
    \/ ShouldExclude(ColName(c))
    \/ SeenBefore(c)
    \/ (CarriesQid(c) /\ SubSeq(ColName(c), 1, QidLen(ColName(c))) \in EXCLUDE_QIDS)

GroupsHolding(c) == {g \in 1..Len(questions) : c \in Members(questions[g])}

\* C1 as stated: when auto_detect_questions returns, every column that is
\* not skipped is a member of some returned group (an open_text column
\* being a group of its own).
C1_EveryKeptColumnGrouped ==
    Returned => \A c \in Positions : ~Skipped(c) => GroupsHolding(c) # {}

\* What the scan does instead: every column that is not skipped and whose
\* signature is likert, numeric_scale, multiple_choice or single_choice is a
\* member of exactly one returned group; a column that is not skipped and
\* is open_text is consumed and is a member of no group.
Scan_KeptColumnGroupedUnlessOpenText ==
    Returned =>
        \A c \in Positions : ~Skipped(c) =>
            /\ Signature(c).type # QT_OPEN => Cardinality(GroupsHolding(c)) = 1
            /\ Signature(c).type = QT_OPEN =>
                  GroupsHolding(c) = {} /\ c \in processed

\* an open_text column that is not skipped stands between two grouped columns
Scan_OpenTextBetweenGroups ==
    /\ Returned
    /\ \E c \in Positions :
          /\ ~Skipped(c)
          /\ Signature(c).type = QT_OPEN
          /\ c - 1 \in Positions /\ GroupsHolding(c - 1) # {}
          /\ c + 1 \in Positions /\ GroupsHolding(c + 1) # {}

\* C2 as stated: auto_detect_questions never raises, whatever signatures
\* _detect_column_type produced (NaN and infinite scale bounds included).
C2_NeverRaises == pc # "raised"

\* C3: in every group built, every member column's signature variant equals
\* the group's question_type.
C3_MembersShareType ==
    \A q \in Groups : \A c \in Members(q) : Signature(c).type = q.question_type

\* a returned group with an absorbed member, in a dataset where another
\* column of another type was not absorbed
C3_Witness ==
    /\ Returned
    /\ \E q \in Groups :
          /\ Len(q.columns) >= 2
          /\ \E c \in Positions :
                /\ c = q.columns[Len(q.columns)] + 1
                /\ ~CarriesQid(c)
                /\ Signature(c).type \notin {QT_EMPTY, q.question_type}

\* C4: in every group built, a position strictly between the first and the
\* last member that is not a member is empty, metadata, excluded, or has a
\* normalized header that was already seen.
C4_GapsAreSkippedColumns ==
    \A q \in Groups :
        \A c \in Positions :
            (/\ q.columns[1] < c
             /\ c < q.columns[Len(q.columns)]
             /\ c \notin Members(q))
            => \/ Signature(c).type = QT_EMPTY
               \/ IsMeta(ColName(c))
               \/ ShouldExclude(ColName(c))
               \/ SeenBefore(c)

\* a returned group whose members are not adjacent
C4_Witness ==
    /\ Returned
    /\ \E q \in Groups :
          /\ Len(q.columns) >= 2
          /\ q.columns[Len(q.columns)] - q.columns[1] >= Len(q.columns)

\* C5: every single_choice group has exactly one member column.
C5_SingleChoiceIsSingleton ==
    \A q \in Groups : q.question_type = QT_SINGLE_CHOICE => Len(q.columns) = 1

\* a single_choice group followed at once by a single_choice column that
\* carries no identifier, which is a group of its own
C5_Witness ==
    /\ Returned
    /\ \E g \in 1..(Len(questions) - 1) :
          LET c == questions[g].columns[1]
          IN  /\ questions[g].question_type = QT_SINGLE_CHOICE
              /\ questions[g + 1].question_type = QT_SINGLE_CHOICE
              /\ questions[g + 1].columns = <<c + 1>>
              /\ ~CarriesQid(c + 1)

\* C6: in every group built, no member other than the first has a header
\* that matches the identifier pattern: the first column after the opener
\* that carries an identifier ends the extension, so no column from the
\* second position of the group's span to its last member carries one,
\* whatever its type and whether or not it is also metadata, excluded, a
\* duplicate or empty.
C6_OnlyOpenerCarriesQid ==
    /\ \A q \in Groups : \A c \in Positions :
          (q.columns[1] < c /\ c <= q.columns[Len(q.columns)]) => ~CarriesQid(c)
    /\ \A k \in 2..Len(group_cols) : ~CarriesQid(group_cols[k])

\* a returned group of two members or more, followed at once by a column of
\* the group's type that carries an identifier and is also excluded
C6_Witness ==
    /\ Returned
    /\ \E q \in Groups :
          LET c == q.columns[Len(q.columns)] + 1
          IN  /\ Len(q.columns) >= 2
              /\ c \in Positions
              /\ CarriesQid(c)
              /\ ShouldExclude(ColName(c))
              /\ Signature(c).type = q.question_type

\* C7: a column whose normalized header equals that of an earlier member of
\* a group is a member of no group, so the normalized headers of the member
\* columns of all groups are pairwise distinct.
C7_MemberHeadersDistinct ==
    \A g1, g2 \in 1..Len(questions) :
        \A k1 \in 1..Len(questions[g1].columns) :
            \A k2 \in 1..Len(questions[g2].columns) :
                (<<g1, k1>> # <<g2, k2>>) =>
                    NormHeader(ColName(questions[g1].columns[k1]))
                        # NormHeader(ColName(questions[g2].columns[k2]))

\* a column of the group's type, without identifier, is left out of the
\* group because an earlier member has the same normalized header
C7_Witness ==
    /\ Returned
    /\ \E q \in Groups : \E c1 \in Members(q) : \E c2 \in Positions :
          /\ c2 = q.columns[Len(q.columns)] + 1
          /\ ~CarriesQid(c2)
          /\ NormHeader(ColName(c1)) = NormHeader(ColName(c2))
          /\ ColName(c1) # ColName(c2)
          /\ Signature(c2).type = q.question_type
          /\ GroupsHolding(c2) = {}

\* the scale_min / scale_max values of the members' signatures
MemberMins(q) == {Signature(c).scale_min[1] : c \in Members(q)}
MemberMaxs(q) == {Signature(c).scale_max[1] : c \in Members(q)}
MemberSentinels(q) == UNION {Signature(c).special_numeric : c \in Members(q)}
NotNaN(S) == {x \in S : x # NaN}
Least(S) == CHOOSE x \in S : \A y \in S : ~Lt(y, x)
Greatest(S) == CHOOSE x \in S : \A y \in S : ~Lt(x, y)

\* C8 as stated: for every likert or numeric_scale group, scale_min equals
\* the minimum of the members' scale_min values, scale_max the maximum of
\* their scale_max values, and the sentinel set the union of theirs.
C8_BoundsAreMemberExtremes ==
    \A q \in ScaleGroups :
        /\ IntNum(q.scale_min[1]) \in MemberMins(q)
        /\ \A y \in MemberMins(q) : ~Lt(y, IntNum(q.scale_min[1]))
        /\ IntNum(q.scale_max[1]) \in MemberMaxs(q)
        /\ \A y \in MemberMaxs(q) : ~Lt(IntNum(q.scale_max[1]), y)
        /\ q.special_values = MemberSentinels(q)

\* What the merge does instead: for every likert or numeric_scale group,
\* scale_min is the
\* minimum of the members' scale_min values truncated toward zero to an
\* integer, scale_max the maximum of their scale_max values truncated toward
\* zero (a NaN bound of a member is passed over by the comparison, and the
\* extremes are finite), and the sentinel set is the union of the members'
\* sentinel sets.
Scan_BoundsAreTruncatedExtremes ==
    \A q \in ScaleGroups :
        /\ NotNaN(MemberMins(q)) # {}
        /\ NotNaN(MemberMaxs(q)) # {}
        /\ Least(NotNaN(MemberMins(q))).k = "fin"
        /\ Greatest(NotNaN(MemberMaxs(q))).k = "fin"
        /\ q.scale_min = <<IntTrunc(Least(NotNaN(MemberMins(q))))>>
        /\ q.scale_max = <<IntTrunc(Greatest(NotNaN(MemberMaxs(q))))>>
        /\ q.special_values = MemberSentinels(q)

\* a returned group of two members or more whose smallest member bound is
\* no integer, and one whose members differ in their largest bound
Scan_FractionalBoundMerged ==
    /\ Returned
    /\ \E q \in ScaleGroups :
          /\ Len(q.columns) >= 2
          /\ Least(NotNaN(MemberMins(q))).den > 1
    /\ \E q \in ScaleGroups : Cardinality(MemberMaxs(q)) >= 2

----------------------------------------------------------------------------
(* Properties of the detector (specification SpecDetect) *)

\* C9 as stated: two columns holding the same multiset of values in
\* different row orders get the same signature.
C9_OrderIndependent == dpc = "done" => sig = sig2

\* the codes of the values of series that match the likert pattern
SeriesCodes ==
    {LikertCode(Values(series)[k]) :
        k \in {r \in 1..Len(Values(series)) : LikertMatch(Values(series)[r])}}

SpecExample ==
    <<<<"1",":"," ","T","a","k">>, <<"2",":"," ","N","i","e">>, <<"6",":"," ","N","i","e"," ","w","i","e","m">>>>

\* C10: for a column classified likert, a code is in the sentinel set
\* exactly when its label contains a cue; scale_min and scale_max are the
\* least and greatest non-sentinel code, and the least and greatest of all
\* codes only when every code is sentinel; 1: Tak, 2: Nie, 6: Nie wiem give
\* the sentinel set {6} and scale_max 2.
C10_SentinelsAndUsableBounds ==
    (dpc = "done" /\ sig.type = QT_LIKERT) =>
        LET usable == SeriesCodes \ sig.special_numeric
            bounds == IF usable # {} THEN usable ELSE SeriesCodes
        IN  /\ DOMAIN sig.scale_labels = SeriesCodes
            /\ sig.special_numeric =
                  {c \in SeriesCodes :
                      \E cue \in SENTINEL_CUES :
                          Contains(Lower(sig.scale_labels[c]), cue)}
            /\ sig.scale_min = <<IntNum(SetMin(bounds))>>
            /\ sig.scale_max = <<IntNum(SetMax(bounds))>>
            /\ (series = SpecExample =>
                   /\ sig.special_numeric = {6}
                   /\ sig.scale_max = <<IntNum(2)>>)

\* the column 1: Tak, 2: Nie, 6: Nie wiem has been classified
C10_Witness ==
    /\ dpc = "done"
    /\ series = SpecExample
    /\ sig.type = QT_LIKERT
    /\ sig.special_numeric = {6}

----------------------------------------------------------------------------
(* Properties of the rules of _detect_column_type (specification SpecRules) *)

\* the non-blank values of series, and how many match the likert pattern
\* and how many parse as a number
NonBlank == Values(series)
LikertCount ==
    Cardinality({k \in 1..Len(NonBlank) : LikertMatch(NonBlank[k])})
ParsedCount ==
    Cardinality({k \in 1..Len(NonBlank) : FloatParse(NonBlank[k]) # NotANumber})
\* a value that does not parse and is no known non-response string
TextFailure(v) ==
    FloatParse(v) = NotANumber /\ Lower(Strip(v)) \notin SPECIAL_VALUES
OnlyMentions ==
    \A k \in 1..Len(NonBlank) : NonBlank[k] \in MENTION_VALUES

\* C11: a column with no non-blank value is empty; a column whose distinct
\* non-blank values all lie in MENTIONED / NOT MENTIONED is
\* multiple_choice; any other column is likert exactly when the values
\* matching the code-colon-label pattern are strictly more than 40% of the
\* non-blank values.
C11_RulesInOrder ==
    dpc = "done" =>
        /\ Len(NonBlank) = 0 => sig.type = QT_EMPTY
        /\ (Len(NonBlank) > 0 /\ OnlyMentions) => sig.type = QT_MULTI_CHOICE
        /\ (Len(NonBlank) > 0 /\ ~OnlyMentions) =>
              (sig.type = QT_LIKERT <=> 10 * LikertCount > 4 * Len(NonBlank))

\* a classified column of five non-blank values of which exactly two (40%)
\* match the likert pattern
C11_Witness ==
    /\ dpc = "done"
    /\ Len(NonBlank) = 5
    /\ LikertCount = 2
    /\ ~OnlyMentions
    /\ sig.type # QT_LIKERT

\* C12: a column that is not empty, not multiple_choice and not likert is
\* numeric_scale exactly when strictly more than 50% of its values parse as
\* numbers and no value is a text failure (a value that does not parse and
\* is no known non-response string); a value matching the likert pattern
\* is such a text failure.
C12_NumericRule ==
    (dpc = "done" /\ sig.type \notin {QT_EMPTY, QT_MULTI_CHOICE, QT_LIKERT}) =>
        /\ sig.type = QT_NUMERIC_SCALE <=>
              /\ 2 * ParsedCount > Len(NonBlank)
              /\ \A k \in 1..Len(NonBlank) : ~TextFailure(NonBlank[k])
        /\ \A k \in 1..Len(NonBlank) :
              LikertMatch(NonBlank[k]) => TextFailure(NonBlank[k])
        /\ LikertCount > 0 => sig.type # QT_NUMERIC_SCALE

\* a classified column where most values parse, one value matches the
\* likert pattern below the 40% threshold, and the column is not numeric
C12_Witness ==
    /\ dpc = "done"
    /\ sig.type \notin {QT_EMPTY, QT_MULTI_CHOICE, QT_LIKERT, QT_NUMERIC_SCALE}
    /\ LikertCount = 1
    /\ 2 * ParsedCount > Len(NonBlank)


----------------------------------------------------------------------------
(* Properties of _split_qid_header (specification SpecHeader) *)

HasQid == QidLen(hdr) # 0
\* the identifier and the text that follows it, trimmed
HdrQid == SubSeq(hdr, 1, QidLen(hdr))
Remainder == Strip(SubSeq(hdr, QidLen(hdr) + 2, Len(hdr)))
AllUpper == {UpperChars[k] : k \in 1..Len(UpperChars)}
RegexUpper == AsciiUpper \cup {"Z'", "Z.", "S'", "C'", "L/", "O'", "A,", "E,"}

SplitsAt(r, p, q, upper, least) ==
    /\ 2 <= p /\ p + 1 < q /\ q <= Len(r)
    /\ r[p] \in {".", "?", "!", ":", ";"}
    /\ \A k \in (p + 1)..(q - 1) : r[k] \in WhiteSpace
    /\ r[q] \in upper
    /\ Len(r) - q + 1 >= least

----------------------------------------------------------------------------
(* Properties of export_config, load_config and get_numeric_data           *)
(* (specifications Spec and SpecLoad)                                      *)

HasGroups ==
    /\ "questions" \in DOMAIN config
    /\ config["questions"] # <<>>
    /\ Len(config["questions"][1]) > 0

\* C16: when the document has no non-empty 'questions' section (empty
\* document, key absent, empty list, null) load_config raises the schema
\* error (ValueError); it returns no empty list and raises no other error.
C16_SchemaErrorWithoutGroups ==
    (pc = "loaded" /\ ~HasGroups) => loaded.kind = "ValueError"

\* C17: get_numeric_data returns one parsed column per member of the
\* group, in member order and under the member's label, beside the
\* optional _weight column.
C17_OneColumnPerMember ==
    pc = "extracted" =>
        LET q == questions[result.question]
            data == SelectSeq(result.items, LAMBDA it : it[1] # WeightLabel)
        IN  /\ Len(data) = Len(q.columns)
            /\ \A k \in 1..Len(q.columns) :
                  /\ data[k][1] = q.column_labels[k]
                  /\ data[k][2] = ParsedColumn(q, q.columns[k])


----------------------------------------------------------------------------
(* Properties of the weighted statistics (specification SpecStats) *)

NonMissing == ValidValues(stat_values)
Weighted == stat_weights # <<>>
\* a weights Series of ones only
AllOnes == Weighted /\ \A r \in 1..Len(stat_weights[1]) : stat_weights[1][r] = <<1>>
\* the weights of the non-missing values sum to zero
ZeroTotal ==
    Weighted /\ SeqSum(ValidWeights(stat_values, stat_weights[1])) = 0

\* C18: for a non-empty sequence of values, weighted_median with a weight
\* vector of ones returns what weighted_median returns without weights (the
\* ordinary median).
C18_UnitWeightsMedian ==
    (spc = "done" /\ Len(NonMissing) > 0 /\ AllOnes) =>
        stat_out.median = WeightedMedian(stat_values, <<>>)

\* C19: weighted_std returns the population standard deviation with and
\* without weights, so for at least 2 values the result with weights of
\* ones equals the result without weights.
C19_PopulationStd ==
    (spc = "done" /\ Len(NonMissing) >= 2) =>
        LET n == Len(NonMissing)
            s == SeqSum(NonMissing)
            population ==
                SqrtOf(SeqSum([m \in 1..n |->
                           (NonMissing[m] * n - s) * (NonMissing[m] * n - s)]),
                       n * n * n)
        IN  /\ (~Weighted \/ AllOnes) => stat_out.std = population
            /\ AllOnes => stat_out.std = WeightedStd(stat_values, <<>>)

\* C20: when the weights of the non-missing values sum to zero, the three
\* functions return NaN: none raises, none returns a data value.
C20_ZeroWeightTotalIsNaN ==
    (spc = "done" /\ Len(NonMissing) > 0 /\ ZeroTotal) =>
        /\ stat_out.mean = NaN
        /\ stat_out.median = NaN
        /\ stat_out.std = NaN



----------------------------------------------------------------------------
(* Properties of frequency_table (specification SpecFreq) *)

FreqReturned == spc = "done" /\ stat_groups = <<>>
\* the '%' column as a count of tenths
Tenths(x) == x.num * (10 \div x.den)
PctSum == SeqSum([k \in 1..Len(stat_out) |-> Tenths(stat_out[k].pct)])
Kategorie == [k \in 1..Len(stat_out) |-> stat_out[k].Kategoria]

\* C21: when at least one answer is neither missing nor blank and the
\* total weight is positive, the rounded percentages of the table sum to a
\* value within 0.1 of 100.0.
C21_PercentagesSumTo100 ==
    (/\ FreqReturned
     /\ FreqValidRows(stat_values) # {}
     /\ FreqTotal(stat_values, stat_weights) > 0)
    => (PctSum >= 999 /\ PctSum <= 1001)

\* C22: without sort_by_count the categories are listed in the order of
\* their first occurrence in the column, with and without weights; with
\* sort_by_count the rows are in descending order of count.
C22_FirstSeenOrderUnlessSorted ==
    FreqReturned =>
        /\ stat_opt # <<TRUE>> =>
               Kategorie = FirstSeen(stat_values, FreqValidRows(stat_values))
        /\ stat_opt = <<TRUE>> =>
               \A k \in 1..Len(stat_out) :
                   k < Len(stat_out) => stat_out[k].N >= stat_out[k + 1].N


----------------------------------------------------------------------------
(* Properties of test_group_differences (specification SpecTest) *)

TestReturned == spc = "done" /\ stat_weights = <<>> /\ stat_groups # <<>>
ValidPairs == Cardinality(PairValidRows(stat_values, stat_groups))
GroupCount ==
    Len(FirstSeen(stat_groups, PairValidRows(stat_values, stat_groups)))
IsMarker == stat_out.statistic = NaN /\ stat_out.p_value = NaN
TTestRequested == stat_opt = <<"ttest">>

\* C23: with fewer than 5 valid pairs or fewer than 2 groups the result is
\* the undefined-result marker and no test is run; otherwise with exactly 2
\* groups Mann-Whitney runs unless the t-test was requested, the t-test
\* runs only when requested, and Kruskal-Wallis runs exactly when there
\* are 3 or more groups.
C23_TestByGroupCount ==
    TestReturned =>
        /\ (ValidPairs < 5 \/ GroupCount < 2) =>
               (IsMarker /\ stat_out.called = "")
        /\ (ValidPairs >= 5 /\ GroupCount = 2 /\ ~TTestRequested) =>
               stat_out.called = "mannwhitneyu"
        /\ stat_out.called = "ttest_ind" =>
               (ValidPairs >= 5 /\ GroupCount = 2 /\ TTestRequested)
        /\ stat_out.called = "kruskal" <=>
               (ValidPairs >= 5 /\ GroupCount >= 3)


----------------------------------------------------------------------------
(* Properties of the weighted tables (specification SpecWeights) *)

\* weights.fillna(1.0)
FillNa(weights) ==
    [r \in 1..Len(weights) |-> IF weights[r] = <<>> THEN <<1>> ELSE weights[r]]
WeightsPassed == stat_weights # <<>> /\ stat_groups # <<>>

\* C24: a respondent whose weight entry is missing is counted with weight
\* 1.0 in the numerator and in the total: the weighted tables are the ones
\* obtained from the weights with 1.0 in place of every missing entry.
C24_MissingWeightCountsAsOne ==
    WeightsPassed =>
        /\ spc \in {"choice", "done"} =>
               stat_out.choice \in
                   MultipleChoiceTable(stat_values, <<FillNa(stat_weights[1])>>)
        /\ spc = "done" =>
               stat_out.cross =
                   CrossTabFrequencies(stat_values[1].cells, stat_groups,
                                       <<FillNa(stat_weights[1])>>)


----------------------------------------------------------------------------
(* Termination of the grouping scan (specification SpecFair) *)

ScanEnded == pc \notin {"start", "scan", "extend", "merge"}
\* an iteration of the outer loop: from the loop test back to the loop test
OuterIteration == pc \in {"scan", "merge"} /\ pc' = "scan"
\* an iteration of the extension loop that does not leave it
InnerIteration == pc = "extend" /\ pc' = "extend"

\* C25: the scan ends for every column list; every iteration of the outer
\* loop moves the outer position forward, every iteration of the extension
\* loop moves the extension position forward, and when the scan returns
\* every column position is marked consumed.
C25_ScanTerminates ==
    /\ <>ScanEnded
    /\ [][/\ OuterIteration =>
                 (IF pc = "merge" THEN i' > i /\ i' = j
                  ELSE i' = i + 1)
          /\ InnerIteration => j' = j + 1
          /\ pc = "scan" /\ pc' = "extend" => j' > i]_vars
    /\ [](Returned => processed = Positions)

\* a returned scan of a full-length dataset in which a group absorbed a
\* column and skipped another
C25_Witness ==
    /\ Returned
    /\ n_cols = MaxCols
    /\ processed = Positions
    /\ \E q \in Groups :
           /\ Len(q.columns) = 2
           /\ q.columns[2] = q.columns[1] + 2


----------------------------------------------------------------------------
(* The extension loop step by step (specification Spec) *)

\* the extension loop looks at column j, which carries no identifier
ExtensionAt == pc = "extend" /\ j < n_cols /\ ~Truthy(SplitCol(j)[1])
\* column j is metadata, excluded, a duplicate header or empty
SkippedInExtension ==
    \/ IsMeta(ColName(j))
    \/ ShouldExclude(ColName(j))
    \/ NormHeader(ColName(j)) \in seen_headers
    \/ Signature(j).type = QT_EMPTY
GroupGoesOn == pc' = "extend" /\ i' = i /\ j' = j + 1

\* C26: in the extension loop a column without identifier that is
\* metadata, excluded, a duplicate header or empty is marked consumed and
\* the group goes on unchanged; otherwise a column without identifier of
\* the group's type is appended to the same group; otherwise the loop stops
\* at the column, which stays unconsumed and is where the outer scan
\* resumes.
C26_ExtensionSkipsAbsorbsStops ==
    [][/\ ExtensionAt =>
             IF SkippedInExtension
             THEN /\ GroupGoesOn
                  /\ processed' = processed \cup {j}
                  /\ group_cols' = group_cols
             ELSE IF Signature(j).type = Signature(i).type
             THEN /\ GroupGoesOn
                  /\ group_cols' = Append(group_cols, j)
                  /\ processed' = processed
             ELSE /\ pc' = "merge"
                  /\ j' = j
                  /\ j \notin processed'
                  /\ group_cols' = group_cols
       /\ (pc = "merge" /\ pc' = "scan") =>
             /\ i' = j
             /\ j < n_cols => j \notin processed'
             /\ questions'[Len(questions')].columns = group_cols]_vars

\* the extension loop has skipped a column and then appended the next one
\* to the same group
C26_Witness ==
    /\ pc = "extend"
    /\ Len(group_cols) = 2
    /\ group_cols = <<i, i + 2>>
    /\ i + 1 \in processed
    /\ j = i + 3


----------------------------------------------------------------------------
(* Sentinel codes and the bounds of a likert group (specification Spec) *)

LikertGroups == {q \in Groups : q.question_type = QT_LIKERT}
\* the codes of the group that are no sentinel codes of the group
OrdinaryCodes(q) == (DOMAIN q.scale_labels) \ q.special_values

\* C27: for every likert group that has a code outside its sentinel set,
\* scale_min and scale_max are outside the sentinel set, also when a code
\* is a sentinel in one member column and an ordinary answer in another.
C27_GroupBoundsExcludeSentinels ==
    \A q \in LikertGroups :
        OrdinaryCodes(q) # {} =>
            /\ q.scale_min[1] \notin q.special_values
            /\ q.scale_max[1] \notin q.special_values


----------------------------------------------------------------------------
(* Order and disjointness of the groups (specification Spec) *)

\* C28: in the list of groups, the member positions of a group are
\* strictly increasing, column_labels is as long as columns, every member
\* of an earlier group lies before every member of a later group, and no
\* position is a member of two groups.
C28_GroupsDisjointAndOrdered ==
    \A g \in 1..Len(questions) :
        LET q == questions[g]
        IN  /\ Len(q.columns) >= 1
            /\ \A k \in 1..(Len(q.columns) - 1) : q.columns[k] < q.columns[k + 1]
            /\ Len(q.column_labels) = Len(q.columns)
            /\ \A h \in (g + 1)..Len(questions) :
                   /\ \A a \in Members(q), b \in Members(questions[h]) : a < b
                   /\ Members(q) \cap Members(questions[h]) = {}

\* a returned list with a group of two members followed by another group
C28_Witness ==
    /\ Returned
    /\ Len(questions) = 2
    /\ Len(questions[1].columns) = 2
    /\ questions[2].columns = <<2>>


----------------------------------------------------------------------------
(* Identifiers of the groups (specification Spec) *)

\* C29: no two groups of the list have the same identifier, whether the
\* identifier comes from a header or is synthesized from a position.
C29_IdentifiersDistinct ==
    \A g, h \in 1..Len(questions) :
        g # h => questions[g].id # questions[h].id


----------------------------------------------------------------------------
(* cmd_report and cmd_crosstab on an existing config file (src/main.py).    *)

CommandRan == pc = "reported" /\ LoadConfig(config).kind = "ok"

\* C30: when cmd_report or cmd_crosstab is given an existing config file
\* that load_config accepts, the collection the command iterates as the
\* questions is the ordered list of QuestionDef records load_config built:
\* every loaded question is visited once, every element is a QuestionDef,
\* and the loop raises nothing.
C30_IteratesLoadedQuestions ==
    CommandRan =>
        LET built == LoadConfig(config).questions
        IN  /\ report.len = Len(built)
            /\ Len(report.iterated) = Len(built)
            /\ \A k \in 1..Len(built) :
                   /\ report.iterated[k].type = "QuestionDef"
                   /\ report.iterated[k].value = built[k]
            /\ report.visited = Len(built)
            /\ report.err = ""

=============================================================================
